---- MODULE Spec2Model ----
(* The conversation Chat component (src/components/Chat.tsx, lines 1-612),   *)
(* its ChatMessage renderer (src/components/AudioPlayer.tsx, lines 119-319)  *)
(* and the hosted backend it talks to (tables messages / message_reactions,  *)
(* buckets chat_images / chat_audio, one realtime channel per client).       *)
EXTENDS Integers, Sequences, FiniteSets, TLC

(* ------------------------------ bounds ---------------------------------- *)
\* inserts into messages the followed clients may attempt in a run
MaxInserts == 1
\* rows the other participants may bring the conversation to
MaxRows == 2
\* fetchMessages calls one client may have in flight
MaxFetches == 2
\* UPDATE statements and toggle_reaction calls of the other participants the
\* backend applies in a run
MaxOps == 1
\* updates of messages in a run, the edits of followed clients included
MaxEditOps == 2
\* toggle_reaction calls of a followed client, counted with the above
MaxToggles == 2
\* realtime events queued for one client
MaxInbox == 2
\* handleSendMessage calls one client may have in flight
MaxSends == 1
\* the same, in a run that follows repeated presses of the send button
MaxResends == 2
\* files the clients may try to upload in a run
MaxFiles == 1
\* handleStartRecording calls one client may have in flight
MaxStarts == 1
\* the same, in a run that follows presses of the mic button during a startup
MaxRestarts == 2
\* recordings, and duration intervals, one client may hold at a time
MaxRecordings == 2
\* seconds the recorder's duration interval is followed for
MaxDuration == 2
\* seconds of silence after a keystroke that are followed
MaxIdle == 3
\* keystrokes of one burst that are counted
MaxBurst == 2
\* presses of "Pay with Wallet" in a run
MaxPayments == 2
\* remote writes, and AsyncStorage calls, that fail in a run
MaxErrors == 1
\* presses of the Fund Escrow button in a run
MaxFunds == 2
\* invoices created on the day that is followed
MaxCreated == 3
\* release-escrow requests in a run
MaxReleases == 2
\* wallet_balance of every profile before the run
InitialBalance == 8
\* starts of the app in a run
MaxLaunches == 3

(* -------------------------- program constants --------------------------- *)
\* setTimeout(..., 2000) of handleTyping, in seconds
TypingTimeout == 2

Users == {"u1", "u2"}
\* the users whose composer is driven; the others only watch the conversation
Actors == {"u1"}
Conversation == "c1"
\* another conversation of the same users
OtherConversation == "c2"
Emojis == {"+1"}
Chars == {" ", "a"}
\* what the user may have typed into the input
TypedTexts == {<<>>, <<" ">>, <<" ", "a", " ">>}

(* ------------------------------ values ---------------------------------- *)
\* null for identifiers and timestamps
NULL == 0
\* an attachment column: null, the raw storage path, or a signed URL of it
NullUrl == [kind |-> "null", file |-> 0]
Path(f) == [kind |-> "path", file |-> f]
Signed(f) == [kind |-> "signed", file |-> f]

\* String.prototype.trim on a text held as a tuple of characters
RECURSIVE TrimLeft(_)
TrimLeft(s) == IF s # <<>> /\ Head(s) = " " THEN TrimLeft(Tail(s)) ELSE s
RECURSIVE TrimRight(_)
TrimRight(s) ==
    IF s # <<>> /\ s[Len(s)] = " " THEN TrimRight(SubSeq(s, 1, Len(s) - 1)) ELSE s
Trim(s) == TrimRight(TrimLeft(s))

\* a row of table messages; an absent column of the insert payload is null
Column(payload, col, default) ==
    IF col \in DOMAIN payload THEN payload[col] ELSE default
NewRow(id, payload) ==
    [id |-> id,
     conversation_id |-> payload.conversation_id,
     sender_id |-> payload.sender_id,
     content |-> Column(payload, "content", <<>>),
     image_url |-> Column(payload, "image_url", NullUrl),
     audio_url |-> Column(payload, "audio_url", NullUrl),
     audio_duration_seconds |-> Column(payload, "audio_duration_seconds", NULL),
     reply_to_message_id |-> Column(payload, "reply_to_message_id", NULL),
     created_at |-> id,
     updated_at |-> NULL,
     deleted_at |-> NULL]

\* MessageWithReply with no message in it (a null state value)
NoMessage ==
    [id |-> NULL, conversation_id |-> "", sender_id |-> "", content |-> <<>>,
     image_url |-> NullUrl, audio_url |-> NullUrl, audio_duration_seconds |-> NULL,
     reply_to_message_id |-> NULL, created_at |-> NULL, updated_at |-> NULL,
     deleted_at |-> NULL, message_reactions |-> {}, replied_to |-> NULL]

VARIABLES
    \* backend
    rows, reactions, chat_images, chat_audio, fileSeq, opCount,
    \* realtime channel of each client
    channelState, inbox,
    \* message store
    messages, loading, fetches,
    \* the conversationId prop of each client's Chat, the channels the Chat
    \* has created and not removed, and channelRef.current
    conversationId, channels, channelRef,
    \* composer
    newMessage, replyingTo, editingMessage, reactingTo, isUploading, sheet,
    deleteAlert, sendTasks, imageTasks, reactTasks,
    \* recorder
    recording, recordingStatus, recordingDuration, durationInterval,
    intervals, liveRecordings, startTasks, stopTasks, lastStop,
    \* typing presence
    typingTimeoutRef, typingTimers, otherUserIsTyping, sinceKey, stopCount, burst,
    \* every payload handed to supabase.from('messages').insert
    payloads,
    \* how many handleSendMessage calls and handleStartRecording calls of a
    \* client may be in flight, and how many payloads are followed, in the run
    \* (fixed by the initial state)
    budget

VARIABLES
    \* tables profiles (column wallet_balance), transactions, invoices, orders
    wallet_balance, transactions, invoices, orders,
    \* invoice screen of each client: useAuth().profile, the loaded invoice,
    \* the paying flag and the processPayment call in flight
    profile, invoice, paying, payTask,
    \* release-escrow requests, answered or in flight
    releases,
    \* presses of the pay button and failed remote writes so far
    payCount, writeErrors

VARIABLES
    \* which Index is built, and what the device keeps between launches: the
    \* session of the auth client, the role of its profile, the AsyncStorage key
    variant, storedSession, storedRole, asyncStorage,
    \* Index and its hooks
    route, showSplash, authLoading, profileLoading, session, role,
    hasSeenOnboarding, onboardingLoading,
    \* launches and failed AsyncStorage calls so far; whether onboarding has
    \* been completed since the key was last removed
    launches, storageErrors, seen

VARIABLES
    \* table escrow_transactions
    escrow_transactions,
    \* escrow screen of each client: the fetched invoice, the loading flag and
    \* the handleFundEscrow call in flight; presses of Fund Escrow so far
    fundInvoice, fundLoading, fundTask, fundCount,
    \* table notifications
    notifications,
    \* the rows of table invoices created today, the invoice_number the trigger
    \* has given to the row each client is inserting (0: no insert in flight),
    \* and the rows inserted today so far
    dayInvoices, insertTask, invoiceSeq

backendVars == <<rows, reactions, chat_images, chat_audio, fileSeq, opCount>>
channelVars == <<channelState, inbox>>
storeVars == <<messages, loading, fetches>>
composerVars == <<newMessage, replyingTo, editingMessage, reactingTo, isUploading,
                  sheet, deleteAlert, sendTasks, imageTasks, reactTasks>>
recorderVars == <<recording, recordingStatus, recordingDuration, durationInterval,
                  intervals, liveRecordings, startTasks, stopTasks, lastStop>>
typingVars == <<typingTimeoutRef, typingTimers, otherUserIsTyping, sinceKey,
               stopCount, burst>>
mountVars == <<conversationId, channels, channelRef>>
chatVars == <<backendVars, channelVars, storeVars, composerVars, recorderVars,
              typingVars, payloads, mountVars, budget>>
ledgerVars == <<wallet_balance, transactions, invoices, orders>>
invoiceVars == <<profile, invoice, paying, payTask, payCount>>
deviceVars == <<variant, storedSession, storedRole, asyncStorage>>
indexVars == <<route, showSplash, authLoading, profileLoading, session, role,
               hasSeenOnboarding, onboardingLoading>>
entryVars == <<deviceVars, indexVars, launches, storageErrors, seen>>
fundVars == <<escrow_transactions, fundInvoice, fundLoading, fundTask, fundCount>>
\* the escrow screen and the triggers of table invoices
numberVars == <<dayInvoices, insertTask, invoiceSeq>>
invoicingVars == <<fundVars, notifications, numberVars>>
\* what no handler of a mounted Chat changes: the other screens and the prop
appVars == <<ledgerVars, invoiceVars, releases, writeErrors, entryVars,
             invoicingVars, mountVars, budget>>
vars == <<chatVars, appVars>>

(* ------------------------------ helpers --------------------------------- *)
Range(s) == {s[i] : i \in 1..Len(s)}
RemoveAt(s, i) == SubSeq(s, 1, i - 1) \o SubSeq(s, i + 1, Len(s))
SelectRows(conv) == SelectSeq(rows, LAMBDA r : r.conversation_id = conv)
RowIds == {rows[i].id : i \in 1..Len(rows)}
\* the realtime server queues a change for every client whose channel has joined
Notify(box, ev) ==
    [c \in Users |-> IF channelState[c] = "joined" THEN Append(box[c], ev) ELSE box[c]]
\* a broadcast goes to the joined channels of the others (broadcast: {self: false})
Broadcast(box, from, ev) ==
    [c \in Users |->
        IF c # from /\ channelState[c] = "joined" THEN Append(box[c], ev) ELSE box[c]]
TypingEvent(isTyping) == [table |-> "broadcast", eventType |-> "typing", new |-> isTyping]
InboxRoom == \A c \in Users : Len(inbox[c]) < MaxInbox

(* --------------------------- message store ------------------------------ *)
\* the row as the select of fetchMessages returns it: the reactions of the
\* message and the replied-to message joined in
Joined(r) ==
    [id |-> r.id, conversation_id |-> r.conversation_id, sender_id |-> r.sender_id,
     content |-> r.content, image_url |-> r.image_url, audio_url |-> r.audio_url,
     audio_duration_seconds |-> r.audio_duration_seconds,
     reply_to_message_id |-> r.reply_to_message_id, created_at |-> r.created_at,
     updated_at |-> r.updated_at, deleted_at |-> r.deleted_at,
     message_reactions |->
        {[emoji |-> x.emoji, user_id |-> x.user_id] :
            x \in {y \in reactions : y.message_id = r.id}},
     replied_to |-> IF r.reply_to_message_id \in RowIds
                    THEN r.reply_to_message_id ELSE NULL]

\* supabase.storage.from(bucket).createSignedUrl(path): the signed URL, or null
\* when the call fails (signedUrlData?.signedUrl || null)
CreateSignedUrl(url, ok) ==
    IF url.kind = "path" /\ url.file \in ok THEN Signed(url.file) ELSE NullUrl

\* the for loop of fetchMessages over data
SignAll(data, ok) ==
    [i \in 1..Len(data) |->
        [data[i] EXCEPT
            !.image_url = IF data[i].image_url.kind # "null"
                          THEN CreateSignedUrl(data[i].image_url, ok)
                          ELSE data[i].image_url,
            !.audio_url = IF data[i].audio_url.kind # "null"
                          THEN CreateSignedUrl(data[i].audio_url, ok)
                          ELSE data[i].audio_url]]

AttachmentFiles(data) ==
    {data[i].image_url.file : i \in {j \in 1..Len(data) : data[j].image_url.kind = "path"}}
    \cup
    {data[i].audio_url.file : i \in {j \in 1..Len(data) : data[j].audio_url.kind = "path"}}

\* a call of fetchMessages: the select is on its way to the backend
FetchTaskFor(conv) == [stage |-> "requested", conv |-> conv, data |-> <<>>]
FetchTask == FetchTaskFor(Conversation)

\* the backend runs the select of a fetch (or answers with an error)
ServerSelect(c) ==
    \E i \in 1..Len(fetches[c]) :
        /\ fetches[c][i].stage = "requested"
        /\ \E error \in BOOLEAN :
            fetches' = [fetches EXCEPT ![c][i] =
                IF error
                THEN [@ EXCEPT !.stage = "failed"]
                ELSE [@ EXCEPT !.stage = "selected",
                               !.data = LET found == SelectRows(fetches[c][i].conv)
                                        IN [k \in 1..Len(found) |-> Joined(found[k])]]]
        /\ UNCHANGED <<backendVars, channelVars, messages, loading, composerVars,
                       recorderVars, typingVars, payloads, appVars>>

\* the rest of fetchMessages once the select has settled: sign the attachments,
\* replace the list (the empty list after an error), clear loading
FetchResolve(c) ==
    \E i \in 1..Len(fetches[c]) :
        /\ fetches[c][i].stage \in {"selected", "failed"}
        /\ \E ok \in SUBSET AttachmentFiles(fetches[c][i].data) :
            messages' = [messages EXCEPT ![c] =
                IF fetches[c][i].stage = "failed" THEN <<>>
                ELSE SignAll(fetches[c][i].data, ok)]
        /\ loading' = [loading EXCEPT ![c] = FALSE]
        /\ fetches' = [fetches EXCEPT ![c] = RemoveAt(@, i)]
        /\ UNCHANGED <<backendVars, channelVars, composerVars, recorderVars,
                       typingVars, payloads, appVars>>

\* channel.subscribe() has been acknowledged by the realtime server
ChannelJoined(c) ==
    /\ channelState[c] = "joining"
    /\ channelState' = [channelState EXCEPT ![c] = "joined"]
    /\ UNCHANGED <<backendVars, inbox, storeVars, composerVars, recorderVars,
                   typingVars, payloads, appVars>>

\* { ...payload.new, message_reactions: [] } of the INSERT branch
FromInsert(new) ==
    [id |-> new.id, conversation_id |-> new.conversation_id,
     sender_id |-> new.sender_id, content |-> new.content,
     image_url |-> new.image_url, audio_url |-> new.audio_url,
     audio_duration_seconds |-> new.audio_duration_seconds,
     reply_to_message_id |-> new.reply_to_message_id, created_at |-> new.created_at,
     updated_at |-> new.updated_at, deleted_at |-> new.deleted_at,
     message_reactions |-> {}, replied_to |-> NULL]

\* { ...msg, ...payload.new } of the UPDATE branch
MergeUpdate(msg, new) ==
    [msg EXCEPT !.conversation_id = new.conversation_id,
                !.sender_id = new.sender_id, !.content = new.content,
                !.image_url = new.image_url, !.audio_url = new.audio_url,
                !.audio_duration_seconds = new.audio_duration_seconds,
                !.reply_to_message_id = new.reply_to_message_id,
                !.created_at = new.created_at, !.updated_at = new.updated_at,
                !.deleted_at = new.deleted_at]

\* what ChatMessage puts on the screen for a message of the list
ChatMessage(message) ==
    IF message.deleted_at # NULL
    THEN [text |-> "This message was deleted"]
    ELSE [replied_to |-> message.replied_to,
          audio_url |-> message.audio_url,
          audio_duration_seconds |-> message.audio_duration_seconds,
          image_url |-> message.image_url,
          content |-> message.content,
          edited |-> message.updated_at # NULL,
          message_reactions |-> message.message_reactions]

\* a handler that takes a soft-deleted message out of the list instead of
\* merging the change into it
OnMessagesChangeFiltering(prev, ev) ==
    IF ev.eventType = "INSERT" THEN Append(prev, FromInsert(ev.new))
    ELSE IF ev.eventType = "UPDATE"
    THEN IF ev.new.deleted_at # NULL
         THEN SelectSeq(prev, LAMBDA m : m.id # ev.new.id)
         ELSE [i \in 1..Len(prev) |->
                IF prev[i].id = ev.new.id THEN MergeUpdate(prev[i], ev.new) ELSE prev[i]]
    ELSE prev

\* the postgres_changes handler of table messages
OnMessagesChange(prev, ev) ==
    IF ev.eventType = "INSERT" THEN Append(prev, FromInsert(ev.new))
    ELSE IF ev.eventType = "UPDATE"
    THEN [i \in 1..Len(prev) |->
            IF prev[i].id = ev.new.id THEN MergeUpdate(prev[i], ev.new) ELSE prev[i]]
    ELSE prev

\* the realtime client hands the next queued change to its handler
Deliver(c) ==
    /\ inbox[c] # <<>>
    /\ LET ev == Head(inbox[c]) IN
        /\ inbox' = [inbox EXCEPT ![c] = Tail(@)]
        /\ IF ev.table = "messages"
           THEN /\ messages' = [messages EXCEPT ![c] = OnMessagesChange(@, ev)]
                /\ UNCHANGED <<fetches, otherUserIsTyping>>
           ELSE IF ev.table = "message_reactions"
           THEN /\ Len(fetches[c]) < MaxFetches
                /\ fetches' = [fetches EXCEPT ![c] =
                                  Append(@, FetchTaskFor(conversationId[c]))]
                /\ UNCHANGED <<messages, otherUserIsTyping>>
           ELSE /\ otherUserIsTyping' = [otherUserIsTyping EXCEPT ![c] = ev.new]
                /\ UNCHANGED <<messages, fetches>>
    /\ UNCHANGED <<backendVars, channelState, loading, composerVars, recorderVars,
                   typingTimeoutRef, typingTimers, sinceKey, stopCount, burst,
                   payloads, appVars>>

(* ------------------------------ backend --------------------------------- *)
MessageEvent(type, row) == [table |-> "messages", eventType |-> type, new |-> row]
ReactionEvent(type, x) == [table |-> "message_reactions", eventType |-> type, new |-> x]

\* insert into messages: the row is stored and announced, or the call errors
BackendInsert(payload, error) ==
    IF error THEN UNCHANGED <<rows, inbox>>
    ELSE LET row == NewRow(Len(rows) + 1, payload) IN
         /\ rows' = Append(rows, row)
         /\ inbox' = Notify(inbox, MessageEvent("INSERT", row))

\* update messages set ... where id = id
BackendUpdate(id, columns, error) ==
    IF error \/ id \notin RowIds THEN UNCHANGED <<rows, inbox>>
    ELSE LET i == CHOOSE k \in 1..Len(rows) : rows[k].id = id
             row == [col \in DOMAIN rows[i] |->
                        IF col \in DOMAIN columns THEN columns[col] ELSE rows[i][col]]
         IN
         /\ rows' = [rows EXCEPT ![i] = row]
         /\ inbox' = Notify(inbox, MessageEvent("UPDATE", row))

\* rpc toggle_reaction(p_message_id, p_emoji) for the calling user: removes the
\* user's reaction with that emoji when there is one, adds it otherwise
BackendToggleReaction(id, user, emoji, error) ==
    LET x == [message_id |-> id, user_id |-> user, emoji |-> emoji] IN
    IF error \/ id \notin RowIds THEN UNCHANGED <<reactions, inbox>>
    ELSE IF x \in reactions
    THEN /\ reactions' = reactions \ {x}
         /\ inbox' = Notify(inbox, ReactionEvent("DELETE", x))
    ELSE /\ reactions' = reactions \cup {x}
         /\ inbox' = Notify(inbox, ReactionEvent("INSERT", x))

(* ------------------------------ composer -------------------------------- *)
NoSheet == [message |-> NoMessage, options |-> <<>>]
\* the chat is rendered and no modal (action sheet, alert, reaction picker) is up
UiReady(c) ==
    /\ c \in Actors
    /\ ~loading[c]
    /\ sheet[c] = NoSheet
    /\ deleteAlert[c] = NULL
    /\ reactingTo[c].id = NULL
\* the text input and its buttons are shown (not the recording bar)
InputShown(c) == UiReady(c) /\ recordingStatus[c] = "idle"
SendButtonShown(c) == Trim(newMessage[c]) # <<>> /\ editingMessage[c].id = NULL
CheckButtonShown(c) == editingMessage[c].id # NULL
MicButtonShown(c) == ~SendButtonShown(c)

\* an action sheet that offers Edit and Delete whoever sent the message
ActionOptionsForAnyone(message, me) ==
    LET canEdit == /\ message.content # <<>>
                   /\ message.image_url.kind = "null"
                   /\ message.audio_url.kind = "null"
    IN <<"Cancel", "Reply", "React">>
       \o (IF canEdit THEN <<"Edit">> ELSE <<>>)
       \o <<"Delete">>

\* the options handleShowActions puts on the action sheet of a message
ActionOptions(message, me) ==
    LET isMyMessage == message.sender_id = me
        canEdit == /\ isMyMessage
                   /\ message.content # <<>>
                   /\ message.image_url.kind = "null"
                   /\ message.audio_url.kind = "null"
        canDelete == isMyMessage
    IN <<"Cancel", "Reply", "React">>
       \o (IF canEdit THEN <<"Edit">> ELSE <<>>)
       \o (IF canDelete THEN <<"Delete">> ELSE <<>>)

\* long press on a message that is not deleted
HandleShowActions(c) ==
    /\ UiReady(c)
    /\ \E i \in 1..Len(messages[c]) :
        /\ messages[c][i].deleted_at = NULL
        /\ sheet' = [sheet EXCEPT ![c] =
              [message |-> messages[c][i],
               options |-> ActionOptions(messages[c][i], c)]]
    /\ UNCHANGED <<backendVars, channelVars, storeVars, newMessage, replyingTo,
                   editingMessage, reactingTo, isUploading, deleteAlert, sendTasks,
                   imageTasks, reactTasks, recorderVars, typingVars, payloads,
                   appVars>>

\* the callback of the action sheet
SelectOption(c) ==
    /\ c \in Actors
    /\ sheet[c] # NoSheet
    /\ \E buttonIndex \in 1..Len(sheet[c].options) :
        LET selectedOption == sheet[c].options[buttonIndex]
            message == sheet[c].message
        IN  /\ replyingTo' = [replyingTo EXCEPT ![c] =
                    IF selectedOption = "Reply" THEN message
                    ELSE IF selectedOption = "Edit" THEN NoMessage ELSE @]
            /\ reactingTo' = [reactingTo EXCEPT ![c] =
                    IF selectedOption = "React" THEN message ELSE @]
            /\ editingMessage' = [editingMessage EXCEPT ![c] =
                    IF selectedOption = "Edit" THEN message ELSE @]
            /\ newMessage' = [newMessage EXCEPT ![c] =
                    IF selectedOption = "Edit" THEN message.content ELSE @]
            /\ deleteAlert' = [deleteAlert EXCEPT ![c] =
                    IF selectedOption = "Delete" THEN message.id ELSE @]
    /\ sheet' = [sheet EXCEPT ![c] = NoSheet]
    /\ UNCHANGED <<backendVars, channelVars, storeVars, isUploading, sendTasks,
                   imageTasks, reactTasks, recorderVars, typingVars, payloads,
                   appVars>>

\* the Alert of handleDeleteMessage: Cancel, or Delete, whose update sets deleted_at
AnswerDeleteAlert(c) ==
    /\ c \in Actors
    /\ deleteAlert[c] # NULL
    /\ \/ UNCHANGED <<rows, inbox, opCount>>
       \/ /\ opCount < MaxOps
          /\ InboxRoom
          /\ opCount' = opCount + 1
          /\ \E error \in BOOLEAN :
                BackendUpdate(deleteAlert[c], [deleted_at |-> 1], error)
    /\ deleteAlert' = [deleteAlert EXCEPT ![c] = NULL]
    /\ UNCHANGED <<reactions, chat_images, chat_audio, fileSeq, channelState,
                   storeVars, newMessage, replyingTo, editingMessage, reactingTo,
                   isUploading, sheet, sendTasks, imageTasks, reactTasks,
                   recorderVars, typingVars, payloads, appVars>>

\* handleSelectReaction: the rpc is sent while the picker stays up
HandleSelectReaction(c) ==
    /\ c \in Actors
    /\ reactingTo[c].id # NULL
    /\ reactTasks[c] = <<>>
    /\ opCount < MaxToggles
    /\ \E emoji \in Emojis :
        reactTasks' = [reactTasks EXCEPT ![c] =
            Append(@, [p_message_id |-> reactingTo[c].id, p_emoji |-> emoji])]
    /\ UNCHANGED <<backendVars, channelVars, storeVars, newMessage, replyingTo,
                   editingMessage, reactingTo, isUploading, sheet, deleteAlert,
                   sendTasks, imageTasks, recorderVars, typingVars, payloads,
                   appVars>>

\* the rpc settles and handleSelectReaction closes the picker
ReactionSettled(c) ==
    /\ reactTasks[c] # <<>>
    /\ InboxRoom
    /\ LET t == Head(reactTasks[c]) IN
        \E error \in BOOLEAN :
            BackendToggleReaction(t.p_message_id, c, t.p_emoji, error)
    /\ opCount' = opCount + 1
    /\ reactTasks' = [reactTasks EXCEPT ![c] = Tail(@)]
    /\ reactingTo' = [reactingTo EXCEPT ![c] = NoMessage]
    /\ UNCHANGED <<rows, chat_images, chat_audio, fileSeq, channelState, storeVars,
                   newMessage, replyingTo, editingMessage, isUploading, sheet,
                   deleteAlert, sendTasks, imageTasks, recorderVars, typingVars,
                   payloads, appVars>>

\* onClose of the ReactionPicker
CloseReactionPicker(c) ==
    /\ c \in Actors
    /\ reactingTo[c].id # NULL
    /\ reactingTo' = [reactingTo EXCEPT ![c] = NoMessage]
    /\ UNCHANGED <<backendVars, channelVars, storeVars, newMessage, replyingTo,
                   editingMessage, isUploading, sheet, deleteAlert, sendTasks,
                   imageTasks, reactTasks, recorderVars, typingVars, payloads,
                   appVars>>

\* the X of the reply banner
DismissReply(c) ==
    /\ UiReady(c)
    /\ replyingTo[c].id # NULL
    /\ replyingTo' = [replyingTo EXCEPT ![c] = NoMessage]
    /\ UNCHANGED <<backendVars, channelVars, storeVars, newMessage, editingMessage,
                   reactingTo, isUploading, sheet, deleteAlert, sendTasks,
                   imageTasks, reactTasks, recorderVars, typingVars, payloads,
                   appVars>>

\* the X of the editing banner
DismissEdit(c) ==
    /\ UiReady(c)
    /\ editingMessage[c].id # NULL
    /\ editingMessage' = [editingMessage EXCEPT ![c] = NoMessage]
    /\ newMessage' = [newMessage EXCEPT ![c] = <<>>]
    /\ UNCHANGED <<backendVars, channelVars, storeVars, replyingTo, reactingTo,
                   isUploading, sheet, deleteAlert, sendTasks, imageTasks,
                   reactTasks, recorderVars, typingVars, payloads, appVars>>

\* the early return of handleSendMessage (profile is set: the user is signed in)
SendProceeds(text, uploading) == Trim(text) # <<>> /\ ~uploading

\* messageToSend of handleSendMessage
TextPayload(conv, me, content, replying) ==
    [conversation_id |-> conv,
     sender_id |-> me,
     content |-> content,
     reply_to_message_id |-> IF replying.id # NULL THEN replying.id ELSE NULL]

\* what is remembered of an insert: the handler, the payload and the reply
\* target the handler was called with
Sent(via, c, payload, replying) ==
    [via |-> via, by |-> c, payload |-> payload, replying |-> replying.id]

\* press on the send button or on the check button of the editing banner:
\* handleSendMessage up to its await
HandleSendMessage(c) ==
    /\ InputShown(c)
    /\ SendButtonShown(c) \/ CheckButtonShown(c)
    /\ Len(sendTasks[c]) < budget.sends
    /\ LET content == Trim(newMessage[c]) IN
       IF ~SendProceeds(newMessage[c], isUploading[c])
       THEN UNCHANGED <<sendTasks, payloads>>
       ELSE IF editingMessage[c].id # NULL
       THEN /\ opCount < MaxEditOps
            /\ sendTasks' = [sendTasks EXCEPT ![c] =
                  Append(@, [kind |-> "edit", id |-> editingMessage[c].id,
                             content |-> content])]
            /\ UNCHANGED payloads
       ELSE LET messageToSend ==
                    TextPayload(conversationId[c], c, content, replyingTo[c]) IN
            /\ Len(payloads) < budget.inserts
            /\ sendTasks' = [sendTasks EXCEPT ![c] =
                  Append(@, [kind |-> "insert", payload |-> messageToSend])]
            /\ payloads' = Append(payloads, Sent("text", c, messageToSend, replyingTo[c]))
    /\ UNCHANGED <<backendVars, channelVars, storeVars, newMessage, replyingTo,
                   editingMessage, reactingTo, isUploading, sheet, deleteAlert,
                   imageTasks, reactTasks, recorderVars, typingVars, appVars>>

\* the update or insert of handleSendMessage settles and the handler resets the
\* composer
SendSettled(c) ==
    /\ sendTasks[c] # <<>>
    /\ InboxRoom
    /\ LET t == Head(sendTasks[c]) IN
       \E error \in BOOLEAN :
        IF t.kind = "edit"
        THEN /\ BackendUpdate(t.id, [content |-> t.content, updated_at |-> 1],
                           error)
             /\ opCount' = opCount + 1
             /\ editingMessage' = [editingMessage EXCEPT ![c] = NoMessage]
        ELSE /\ BackendInsert(t.payload, error)
             /\ UNCHANGED <<opCount, editingMessage>>
    /\ sendTasks' = [sendTasks EXCEPT ![c] = Tail(@)]
    /\ newMessage' = [newMessage EXCEPT ![c] = <<>>]
    /\ replyingTo' = [replyingTo EXCEPT ![c] = NoMessage]
    /\ UNCHANGED <<reactions, chat_images, chat_audio, fileSeq, channelState,
                   storeVars, reactingTo, isUploading, sheet, deleteAlert,
                   imageTasks, reactTasks, recorderVars, typingVars, payloads,
                   appVars>>

(* --------------------------- typing presence ---------------------------- *)
\* typingTimers holds the pending timers of a client with the seconds they have
\* left. Three history variables follow the clock: sinceKey is the number of
\* seconds since the last keystroke (-1 before the first), burst the number of
\* keystrokes that followed each other by less than TypingTimeout, stopCount
\* the number of {isTyping: false} broadcasts since the last keystroke.
TimerIds(timers) == {t.id : t \in timers}
\* clearTimeout(ref)
ClearTimeout(timers, ref) == {t \in timers : t.id # ref}
\* a keystroke that arms its timer without clearing the pending one
PendingWithoutClear(timers, ref) == timers
\* the timers left pending when handleTyping is about to arm a new one
PendingAfterKeystroke(timers, ref) == ClearTimeout(timers, ref)
\* setTimeout: a fresh identifier and the delay
SetTimeout(timers, ref, delay) ==
    [id |-> CHOOSE n \in 1..(Cardinality(timers) + 1) :
                /\ n \notin TimerIds(timers)
                /\ \A k \in 1..(n - 1) : k \in TimerIds(timers),
     left |-> delay]

\* onChangeText of the input: handleTyping(text)
HandleTyping(c) ==
    /\ InputShown(c)
    /\ ~isUploading[c]
    /\ \E text \in TypedTexts :
        /\ text # newMessage[c]
        /\ newMessage' = [newMessage EXCEPT ![c] = text]
    /\ LET pending == PendingAfterKeystroke(typingTimers[c], typingTimeoutRef[c])
           timer == SetTimeout(pending, typingTimeoutRef[c], TypingTimeout)
       IN /\ typingTimers' = [typingTimers EXCEPT ![c] = pending \cup {timer}]
          /\ typingTimeoutRef' = [typingTimeoutRef EXCEPT ![c] = timer.id]
    /\ InboxRoom
    /\ inbox' = Broadcast(inbox, c, TypingEvent(TRUE))
    /\ sinceKey' = [sinceKey EXCEPT ![c] = 0]
    /\ stopCount' = [stopCount EXCEPT ![c] = 0]
    /\ burst' = [burst EXCEPT ![c] =
            IF sinceKey[c] \in 0..(TypingTimeout - 1)
            THEN (IF @ < MaxBurst THEN @ + 1 ELSE @) ELSE 1]
    /\ UNCHANGED <<backendVars, channelState, otherUserIsTyping, storeVars,
                   replyingTo, editingMessage,
                   reactingTo, isUploading, sheet, deleteAlert, sendTasks,
                   imageTasks, reactTasks, recorderVars, payloads, appVars>>

\* a typing timer expires: the {isTyping: false} broadcast is published
TypingTimerFires(c) ==
    /\ \E t \in typingTimers[c] :
        /\ t.left = 0
        /\ typingTimers' = [typingTimers EXCEPT ![c] = @ \ {t}]
    /\ InboxRoom
    /\ inbox' = Broadcast(inbox, c, TypingEvent(FALSE))
    /\ stopCount' = [stopCount EXCEPT ![c] = @ + 1]
    /\ UNCHANGED <<backendVars, channelState, storeVars, composerVars, recorderVars,
                   typingTimeoutRef, otherUserIsTyping, sinceKey, burst, payloads,
                   appVars>>

\* one second passes; an expired timer fires before the clock moves on
Tick ==
    /\ \A c \in Users : \A t \in typingTimers[c] : t.left > 0
    /\ \E c \in Users : sinceKey[c] \in 0..(MaxIdle - 1)
    /\ typingTimers' = [c \in Users |->
            {[t EXCEPT !.left = @ - 1] : t \in typingTimers[c]}]
    /\ sinceKey' = [c \in Users |->
            IF sinceKey[c] \in 0..(MaxIdle - 1) THEN sinceKey[c] + 1 ELSE sinceKey[c]]
    /\ UNCHANGED <<backendVars, channelVars, storeVars, composerVars, recorderVars,
                   typingTimeoutRef, otherUserIsTyping, stopCount, burst, payloads,
                   appVars>>

(* ------------------------------- images --------------------------------- *)
\* a handler that goes on to the insert whatever the upload returned
UploadNeverAborts(uploadError) == FALSE

\* if (uploadError) return / throw: whether the handler gives the send up
UploadAborts(uploadError) == uploadError

\* the row handlePickImage inserts once the upload has succeeded
ImagePayload(conv, me, filePath, replying) ==
    [conversation_id |-> conv,
     sender_id |-> me,
     image_url |-> filePath,
     reply_to_message_id |-> IF replying.id # NULL THEN replying.id ELSE NULL]

\* press on the attach button: handlePickImage up to the upload. Permission
\* denied, a cancelled picker or an asset without base64 end the handler here
HandlePickImage(c) ==
    /\ InputShown(c)
    /\ ~isUploading[c]
    /\ fileSeq < MaxFiles
    /\ \E picked \in BOOLEAN :
        IF picked
        THEN /\ isUploading' = [isUploading EXCEPT ![c] = TRUE]
             /\ fileSeq' = fileSeq + 1
             /\ imageTasks' = [imageTasks EXCEPT ![c] =
                    Append(@, [stage |-> "uploading", filePath |-> Path(fileSeq + 1),
                               replying |-> replyingTo[c]])]
        ELSE UNCHANGED <<isUploading, fileSeq, imageTasks>>
    /\ UNCHANGED <<rows, reactions, chat_images, chat_audio, opCount, channelVars,
                   storeVars, newMessage, replyingTo, editingMessage, reactingTo,
                   sheet, deleteAlert, sendTasks, reactTasks, recorderVars,
                   typingVars, payloads, appVars>>

\* the upload to chat_images settles: on an error the handler returns, otherwise
\* it sends the insert of the image message
ImageUploadSettled(c) ==
    \E i \in 1..Len(imageTasks[c]) :
        LET t == imageTasks[c][i] IN
        /\ t.stage = "uploading"
        /\ \E uploadError \in BOOLEAN :
            /\ chat_images' = IF uploadError THEN chat_images
                              ELSE chat_images \cup {t.filePath.file}
            /\ IF UploadAborts(uploadError)
               THEN /\ isUploading' = [isUploading EXCEPT ![c] = FALSE]
                    /\ imageTasks' = [imageTasks EXCEPT ![c] = RemoveAt(@, i)]
                    /\ UNCHANGED payloads
               ELSE LET payload == ImagePayload(conversationId[c], c, t.filePath, t.replying)
                 IN /\ Len(payloads) < MaxInserts
                    /\ imageTasks' = [imageTasks EXCEPT ![c][i] =
                          [stage |-> "inserting", filePath |-> t.filePath,
                           replying |-> t.replying, payload |-> payload]]
                    /\ payloads' = Append(payloads, Sent("image", c, payload, t.replying))
                    /\ UNCHANGED isUploading
        /\ UNCHANGED <<rows, reactions, chat_audio, fileSeq, opCount, channelVars,
                       storeVars, newMessage, replyingTo, editingMessage, reactingTo,
                       sheet, deleteAlert, sendTasks, reactTasks, recorderVars,
                       typingVars, appVars>>

\* the insert of the image message settles and handlePickImage ends
ImageInsertSettled(c) ==
    \E i \in 1..Len(imageTasks[c]) :
        LET t == imageTasks[c][i] IN
        /\ t.stage = "inserting"
        /\ InboxRoom
        /\ \E messageError \in BOOLEAN : BackendInsert(t.payload, messageError)
        /\ isUploading' = [isUploading EXCEPT ![c] = FALSE]
        /\ imageTasks' = [imageTasks EXCEPT ![c] = RemoveAt(@, i)]
        /\ UNCHANGED <<reactions, chat_images, chat_audio, fileSeq, opCount,
                       channelState, storeVars, newMessage, replyingTo,
                       editingMessage, reactingTo, sheet, deleteAlert, sendTasks,
                       reactTasks, recorderVars, typingVars, payloads, appVars>>

(* ------------------------------ recorder -------------------------------- *)
\* the row handleStopRecording inserts once the upload has succeeded
VoicePayload(conv, me, filePath, duration, replying) ==
    [conversation_id |-> conv,
     sender_id |-> me,
     audio_url |-> filePath,
     audio_duration_seconds |-> duration,
     reply_to_message_id |-> IF replying.id # NULL THEN replying.id ELSE NULL]

FreshId(used) ==
    CHOOSE n \in 1..(Cardinality(used) + 1) :
        n \notin used /\ \A k \in 1..(n - 1) : k \in used

\* onPressIn of the mic button: handleStartRecording up to its first await
MicPressIn(c) ==
    /\ InputShown(c)
    /\ MicButtonShown(c)
    /\ startTasks[c] < budget.starts
    /\ startTasks' = [startTasks EXCEPT ![c] = @ + 1]
    /\ UNCHANGED <<backendVars, channelVars, storeVars, composerVars, recording,
                   recordingStatus, recordingDuration, durationInterval, intervals,
                   liveRecordings, stopTasks, lastStop, typingVars, payloads,
                   appVars>>

\* the awaits of handleStartRecording settle: permission denied (alert, return),
\* setAudioModeAsync or createAsync throws (catch), or the recording is created
StartSettled(c) ==
    /\ startTasks[c] > 0
    /\ startTasks' = [startTasks EXCEPT ![c] = @ - 1]
    /\ \E outcome \in {"denied", "threw", "created"} :
        IF outcome = "created"
        THEN LET rec == FreshId(liveRecordings[c])
                 timer == FreshId(intervals[c] \cup {durationInterval[c]})
             IN /\ Cardinality(liveRecordings[c]) < MaxRecordings
                /\ Cardinality(intervals[c]) < MaxRecordings
                /\ liveRecordings' = [liveRecordings EXCEPT ![c] = @ \cup {rec}]
                /\ recording' = [recording EXCEPT ![c] = rec]
                /\ recordingStatus' = [recordingStatus EXCEPT ![c] = "recording"]
                /\ durationInterval' = [durationInterval EXCEPT ![c] = timer]
                /\ intervals' = [intervals EXCEPT ![c] = @ \cup {timer}]
        ELSE UNCHANGED <<liveRecordings, recording, recordingStatus,
                         durationInterval, intervals>>
    /\ UNCHANGED <<backendVars, channelVars, storeVars, composerVars,
                   recordingDuration, stopTasks, lastStop, typingVars, payloads,
                   appVars>>

\* the callback of the duration interval
DurationTick(c) ==
    /\ intervals[c] # {}
    /\ recordingDuration[c] < MaxDuration
    /\ recordingDuration' = [recordingDuration EXCEPT ![c] = @ + 1]
    /\ UNCHANGED <<backendVars, channelVars, storeVars, composerVars, recording,
                   recordingStatus, durationInterval, intervals, liveRecordings,
                   startTasks, stopTasks, lastStop, typingVars, payloads,
                   appVars>>

\* a handler that uploads whenever the recording has a URI, discarded or not
StopSendsWhenDiscarded(send, uri) == uri

\* whether handleStopRecording goes on to upload and send
StopSends(send, uri) == send /\ uri

\* the trash button (send = FALSE) or the send button (send = TRUE) of the
\* recording bar: handleStopRecording up to stopAndUnloadAsync
HandleStopRecording(c) ==
    /\ UiReady(c)
    /\ recordingStatus[c] = "recording"
    /\ recording[c] # NULL
    /\ \E send \in BOOLEAN :
        stopTasks' = [stopTasks EXCEPT ![c] =
            Append(@, [stage |-> "stopping", send |-> send,
                       recording |-> recording[c],
                       recordingDuration |-> recordingDuration[c],
                       replying |-> replyingTo[c], filePath |-> NullUrl])]
    /\ recordingStatus' = [recordingStatus EXCEPT ![c] = "stopping"]
    /\ intervals' = [intervals EXCEPT ![c] = @ \ {durationInterval[c]}]
    /\ UNCHANGED <<backendVars, channelVars, storeVars, composerVars, recording,
                   recordingDuration, durationInterval, liveRecordings, startTasks,
                   lastStop, typingVars, payloads, appVars>>

\* the finally block of handleStopRecording
StopFinally(c, outcome) ==
    /\ lastStop' = [lastStop EXCEPT ![c] = outcome]
    /\ replyingTo' = [replyingTo EXCEPT ![c] = NoMessage]
    /\ recording' = [recording EXCEPT ![c] = NULL]
    /\ recordingDuration' = [recordingDuration EXCEPT ![c] = 0]
    /\ recordingStatus' = [recordingStatus EXCEPT ![c] = "idle"]

\* stopAndUnloadAsync settles: it throws (catch, finally), or the handler has
\* the URI and either ends (discard, or no URI) or starts the upload
StopUnloaded(c) ==
    \E i \in 1..Len(stopTasks[c]) :
        LET t == stopTasks[c][i] IN
        /\ t.stage = "stopping"
        /\ liveRecordings' = [liveRecordings EXCEPT ![c] = @ \ {t.recording}]
        /\ \E threw \in BOOLEAN, uri \in BOOLEAN :
            IF threw
            THEN /\ isUploading' = [isUploading EXCEPT ![c] = FALSE]
                 /\ stopTasks' = [stopTasks EXCEPT ![c] = RemoveAt(@, i)]
                 /\ StopFinally(c, "failed")
                 /\ UNCHANGED fileSeq
            ELSE IF StopSends(t.send, uri)
            THEN /\ fileSeq < MaxFiles
                 /\ fileSeq' = fileSeq + 1
                 /\ isUploading' = [isUploading EXCEPT ![c] = TRUE]
                 /\ stopTasks' = [stopTasks EXCEPT ![c][i] =
                        [t EXCEPT !.stage = "uploading",
                                  !.filePath = Path(fileSeq + 1)]]
                 /\ UNCHANGED <<replyingTo, recording, recordingDuration,
                                recordingStatus, lastStop>>
            ELSE /\ stopTasks' = [stopTasks EXCEPT ![c] = RemoveAt(@, i)]
                 /\ StopFinally(c, IF t.send THEN "nothing to send" ELSE "discarded")
                 /\ UNCHANGED <<isUploading, fileSeq>>
        /\ UNCHANGED <<rows, reactions, chat_images, chat_audio, opCount,
                       channelVars, storeVars, newMessage, editingMessage,
                       reactingTo, sheet, deleteAlert, sendTasks, imageTasks,
                       reactTasks, durationInterval, intervals, startTasks,
                       typingVars, payloads, appVars>>

\* fetch(uri), blob() and the upload to chat_audio settle: a throw or an upload
\* error goes to catch and finally, otherwise the insert is sent
VoiceUploadSettled(c) ==
    \E i \in 1..Len(stopTasks[c]) :
        LET t == stopTasks[c][i] IN
        /\ t.stage = "uploading"
        /\ \E uploadError \in BOOLEAN :
            /\ chat_audio' = IF uploadError THEN chat_audio
                             ELSE chat_audio \cup {t.filePath.file}
            /\ IF UploadAborts(uploadError)
               THEN /\ isUploading' = [isUploading EXCEPT ![c] = FALSE]
                    /\ stopTasks' = [stopTasks EXCEPT ![c] = RemoveAt(@, i)]
                    /\ StopFinally(c, "failed")
                    /\ UNCHANGED payloads
               ELSE LET payload == VoicePayload(conversationId[c], c, t.filePath,
                                             t.recordingDuration, t.replying)
                 IN /\ Len(payloads) < MaxInserts
                    /\ stopTasks' = [stopTasks EXCEPT ![c][i] =
                          [t EXCEPT !.stage = "inserting"]]
                    /\ payloads' = Append(payloads, Sent("voice", c, payload, t.replying))
                    /\ UNCHANGED <<isUploading, replyingTo, recording,
                                   recordingDuration, recordingStatus, lastStop>>
        /\ UNCHANGED <<rows, reactions, chat_images, fileSeq, opCount, channelVars,
                       storeVars, newMessage, editingMessage, reactingTo, sheet,
                       deleteAlert, sendTasks, imageTasks, reactTasks,
                       durationInterval, intervals, liveRecordings, startTasks,
                       typingVars, appVars>>

\* the insert of the voice message settles (its error is not looked at) and
\* handleStopRecording ends through finally
VoiceInsertSettled(c) ==
    \E i \in 1..Len(stopTasks[c]) :
        LET t == stopTasks[c][i] IN
        /\ t.stage = "inserting"
        /\ InboxRoom
        /\ \E error \in BOOLEAN :
            BackendInsert(VoicePayload(conversationId[c], c, t.filePath,
                                       t.recordingDuration, t.replying), error)
        /\ isUploading' = [isUploading EXCEPT ![c] = FALSE]
        /\ stopTasks' = [stopTasks EXCEPT ![c] = RemoveAt(@, i)]
        /\ StopFinally(c, "sent")
        /\ UNCHANGED <<reactions, chat_images, chat_audio, fileSeq, opCount,
                       channelState, storeVars, newMessage, editingMessage,
                       reactingTo, sheet, deleteAlert, sendTasks, imageTasks,
                       reactTasks, durationInterval, intervals, liveRecordings,
                       startTasks, typingVars, payloads, appVars>>

(* ------------------- writes of the other participants ------------------- *)
\* Another client of the conversation runs the same handlers; of a client whose
\* screen is not followed only the backend calls of its handlers are kept.

\* handleSendMessage of user u has sent its insert
PeerSendsText(u) ==
    /\ Len(rows) < MaxRows
    /\ InboxRoom
    /\ \E target \in {NULL} \cup RowIds :
        BackendInsert(TextPayload(Conversation, u, <<"a">>,
                                  [NoMessage EXCEPT !.id = target]), FALSE)
    /\ UNCHANGED <<reactions, chat_images, chat_audio, fileSeq, opCount,
                   channelState, storeVars, composerVars, recorderVars,
                   typingVars, payloads, appVars>>

\* handlePickImage of user u has uploaded its file and sent its insert
PeerSendsImage(u) ==
    /\ Len(rows) < MaxRows
    /\ fileSeq < MaxFiles
    /\ InboxRoom
    /\ fileSeq' = fileSeq + 1
    /\ chat_images' = chat_images \cup {fileSeq + 1}
    /\ BackendInsert(ImagePayload(Conversation, u, Path(fileSeq + 1), NoMessage), FALSE)
    /\ UNCHANGED <<reactions, chat_audio, opCount, channelState, storeVars,
                   composerVars, recorderVars, typingVars, payloads, appVars>>

\* handleStopRecording(true) of user u has uploaded its file and sent its insert
PeerSendsVoice(u) ==
    /\ Len(rows) < MaxRows
    /\ fileSeq < MaxFiles
    /\ InboxRoom
    /\ fileSeq' = fileSeq + 1
    /\ chat_audio' = chat_audio \cup {fileSeq + 1}
    /\ BackendInsert(VoicePayload(Conversation, u, Path(fileSeq + 1), 1, NoMessage),
                     FALSE)
    /\ UNCHANGED <<reactions, chat_images, opCount, channelState, storeVars,
                   composerVars, recorderVars, typingVars, payloads, appVars>>

\* user u has confirmed the deletion of one of its messages (handleDeleteMessage)
PeerDeletes(u) ==
    /\ opCount < MaxOps
    /\ InboxRoom
    /\ opCount' = opCount + 1
    /\ \E i \in 1..Len(rows) :
        /\ "Delete" \in Range(ActionOptions(Joined(rows[i]), u))
        /\ rows[i].deleted_at = NULL
        /\ BackendUpdate(rows[i].id, [deleted_at |-> 1], FALSE)
    /\ UNCHANGED <<reactions, chat_images, chat_audio, fileSeq, channelState,
                   storeVars, composerVars, recorderVars, typingVars, payloads,
                   appVars>>

\* user u has confirmed the edit of one of its messages (handleSendMessage in
\* editing mode)
PeerEdits(u) ==
    /\ opCount < MaxOps
    /\ InboxRoom
    /\ opCount' = opCount + 1
    /\ \E i \in 1..Len(rows) :
        /\ "Edit" \in Range(ActionOptions(Joined(rows[i]), u))
        /\ rows[i].deleted_at = NULL
        /\ BackendUpdate(rows[i].id,
                         [content |-> <<"a", "a">>, updated_at |-> 1], FALSE)
    /\ UNCHANGED <<reactions, chat_images, chat_audio, fileSeq, channelState,
                   storeVars, composerVars, recorderVars, typingVars, payloads,
                   appVars>>

\* user u has picked a reaction for a message (handleSelectReaction)
PeerReacts(u) ==
    /\ opCount < MaxOps
    /\ InboxRoom
    /\ opCount' = opCount + 1
    /\ \E i \in 1..Len(rows), emoji \in Emojis :
        /\ rows[i].deleted_at = NULL
        /\ BackendToggleReaction(rows[i].id, u, emoji, FALSE)
    /\ UNCHANGED <<rows, chat_images, chat_audio, fileSeq, channelState,
                   storeVars, composerVars, recorderVars, typingVars, payloads,
                   appVars>>

\* a message of user u arrives in the other conversation
PeerSendsElsewhere(u) ==
    /\ Len(rows) < MaxRows
    /\ InboxRoom
    /\ BackendInsert(TextPayload(OtherConversation, u, <<"a">>, NoMessage), FALSE)
    /\ UNCHANGED <<reactions, chat_images, chat_audio, fileSeq, opCount,
                   channelState, storeVars, composerVars, recorderVars,
                   typingVars, payloads, appVars>>

(* ----------------------- the conversationId prop ------------------------ *)
\* the parent renders the Chat of client c with another conversationId: the
\* effect's cleanup removes the channel, the effect runs again, calls
\* fetchMessages and subscribes a new channel; the state of the component,
\* its message list included, stays
\* a cleanup that leaves the channel subscribed
KeepChannel(chs, ref) == chs
\* the effect's cleanup: supabase.removeChannel(channelRef.current), when the
\* ref is set
RemoveChannel(chs, ref) == {ch \in chs : ch.id # ref}

SetConversation(c, conv) ==
    /\ channelState[c] # "closed"
    /\ conv # conversationId[c]
    /\ Len(fetches[c]) < MaxFetches
    /\ conversationId' = [conversationId EXCEPT ![c] = conv]
    /\ LET left == RemoveChannel(channels[c], channelRef[c])
           channel == [id |-> FreshId({ch.id : ch \in left}), topic |-> conv]
       IN /\ channels' = [channels EXCEPT ![c] = left \cup {channel}]
          /\ channelRef' = [channelRef EXCEPT ![c] = channel.id]
    /\ channelState' = [channelState EXCEPT ![c] = "joining"]
    /\ inbox' = [inbox EXCEPT ![c] = <<>>]
    /\ fetches' = [fetches EXCEPT ![c] = Append(@, FetchTaskFor(conv))]
    /\ UNCHANGED <<backendVars, messages, loading, composerVars, recorderVars,
                   typingVars, payloads, ledgerVars, invoiceVars, releases,
                   writeErrors, entryVars, invoicingVars, budget>>

\* the Chat of client c is unmounted: the effect's cleanup runs, and what the
\* calls in flight set afterwards is seen by nobody
Unmount(c) ==
    /\ channelState[c] # "closed"
    /\ channels' = [channels EXCEPT ![c] = RemoveChannel(@, channelRef[c])]
    /\ channelState' = [channelState EXCEPT ![c] = "closed"]
    /\ inbox' = [inbox EXCEPT ![c] = <<>>]
    /\ fetches' = [fetches EXCEPT ![c] = <<>>]
    /\ UNCHANGED <<backendVars, messages, loading, composerVars, recorderVars,
                   typingVars, payloads, conversationId, channelRef, ledgerVars,
                   invoiceVars, releases, writeErrors, entryVars, invoicingVars,
                   budget>>

(* ------------------------- invoices and wallet -------------------------- *)
\* no user: a null uuid column, a request without a session
NoOne == ""
\* AsyncStorage.getItem of a key that is not stored
NoValue == "null"
\* the merchant who issued the invoices of the run (never a payer)
Merchant == "m"
InvoiceIds == {1, 2}
\* the app instances with an invoice screen: two of user u1 (two devices) and
\* one of user u2
Sessions == {"u1", "u1b", "u2"}
\* the user signed in on session s
UserOf(s) == IF s = "u1b" THEN "u1" ELSE s

\* a row of table invoices that waits for its payment; the merchant has
\* entered the e-mail address of user u1 as customer_email (a user's e-mail
\* address is written as the user's id)
NewInvoice(i) ==
    [id |-> i, merchant_id |-> Merchant, customer_id |-> NoOne,
     customer_email |-> "u1",
     status |-> "pending_payment", total_amount |-> i + 2, delivery_fee |-> 1,
     order_id |-> NULL, escrow_status |-> "pending"]

\* the invoice state before loadInvoice has set it
NoInvoice ==
    [id |-> NULL, merchant_id |-> NoOne, customer_id |-> NoOne,
     customer_email |-> NoOne, status |-> "",
     total_amount |-> 0, delivery_fee |-> 0, order_id |-> NULL,
     escrow_status |-> ""]

\* useAuth().profile of client c holding balance b
Profile(c, b) == [id |-> c, wallet_balance |-> b]

\* no processPayment call in flight
NoPayment ==
    [stage |-> "idle", handler |-> "", invoice |-> NoInvoice,
     profile |-> Profile(NoOne, 0)]

\* create_order_from_invoice without the test of order_id
PaidFromPending(old, new) ==
    new.status = "paid" /\ old.status = "pending_payment"

\* the condition of create_order_from_invoice, on the row before the update
\* (OLD) and the row the update asks for (NEW)
CreatesOrder(old, new) ==
    new.status = "paid" /\ old.status = "pending_payment" /\ new.order_id = NULL

\* the row create_order_from_invoice inserts into orders, from invoice_data,
\* the row it has selected from invoices (the row before the update);
\* package_description names the invoice
OrderFromInvoice(id, inv) ==
    [id |-> id, sender_id |-> inv.customer_id, rider_id |-> NoOne,
     status |-> "pending", escrow_status |-> "pending",
     delivery_fee |-> inv.delivery_fee, package_description |-> inv.id]

\* the row create_order_from_invoice inserts into notifications; the body
\* names the invoice
PaymentReceived(inv) ==
    [user_id |-> inv.merchant_id, title |-> "Payment Received", body |-> inv.id]

\* an update that has reached row i of invoices and asks for the row `new`:
\* trigger create_order_on_payment runs before the row is written. The
\* constraints and policies of tables orders and notifications are not part
\* of the model.
ApplyUpdate(i, new) ==
    LET old == invoices[i]
        new_order_id == Len(orders) + 1 IN
    IF CreatesOrder(old, new)
    THEN /\ orders' = Append(orders, OrderFromInvoice(new_order_id, old))
         /\ notifications' = Append(notifications, PaymentReceived(old))
         /\ invoices' = [invoices EXCEPT ![i] = [new EXCEPT !.order_id = new_order_id]]
    ELSE /\ invoices' = [invoices EXCEPT ![i] = new]
         /\ UNCHANGED <<orders, notifications>>

\* SELECT policies of table invoices for an authenticated user c: the
\* merchant, the customer, and the user with the e-mail address of the invoice
CanView(c, inv) ==
    \/ inv.merchant_id = c
    \/ inv.customer_id = c
    \/ inv.customer_email = c

\* loadInvoice has run for invoice i: the row is the screen's invoice; a row
\* the policies hide is an error and the screen is left
LoadInvoice(c, i) ==
    /\ invoice' = [invoice EXCEPT ![c] =
                      IF CanView(UserOf(c), invoices[i]) THEN invoices[i]
                      ELSE NoInvoice]
    /\ invoice'[c] # invoice[c]
    /\ UNCHANGED <<ledgerVars, profile, paying, payTask, payCount, releases,
                   writeErrors, chatVars, invoicingVars, entryVars>>

\* the auth context has read the user's profile row again
RefreshProfile(c) ==
    /\ profile[c].wallet_balance # wallet_balance[UserOf(c)]
    /\ profile' = [profile EXCEPT ![c] =
                      Profile(UserOf(c), wallet_balance[UserOf(c)])]
    /\ UNCHANGED <<ledgerVars, invoice, paying, payTask, payCount, releases,
                   writeErrors, chatVars, invoicingVars, entryVars>>

\* the pay button is rendered and enabled
CanPay(c) ==
    /\ invoice[c].id # NULL
    /\ profile[c].id # invoice[c].merchant_id
    /\ invoice[c].status = "pending_payment"
    /\ profile[c].wallet_balance >= invoice[c].total_amount

\* const newBalance = profile.wallet_balance - invoice.total_amount
NewBalance(t) == t.profile.wallet_balance - t.invoice.total_amount

\* the row handed to supabase.from('transactions').insert
PaymentRow(t) ==
    [user_id |-> t.profile.id, type |-> "payment", amount |-> t.invoice.total_amount,
     invoice_id |-> t.invoice.id, order_id |-> NULL]

\* the Pay button is pressed and the payment confirmed. processPayment inserts
\* the transaction first and checks the balance afterwards; handlePayment of
\* the other invoice screens checks the balance first. Both work on the invoice
\* and the profile of the render that drew the button.
HandlePayment(c, handler) ==
    /\ CanPay(c)
    /\ ~paying[c]
    /\ payTask[c].stage = "idle"
    /\ payCount < MaxPayments
    /\ payCount' = payCount + 1
    /\ LET t == [stage |-> "insert", handler |-> handler, invoice |-> invoice[c],
                 profile |-> profile[c]] IN
       IF handler = "handlePayment" /\ NewBalance(t) < 0
       THEN UNCHANGED <<paying, payTask>>
       ELSE /\ paying' = [paying EXCEPT ![c] = TRUE]
            /\ payTask' = [payTask EXCEPT ![c] = t]
    /\ UNCHANGED <<ledgerVars, profile, invoice, releases, writeErrors, chatVars, invoicingVars,
                   entryVars>>

\* catch and finally of the payment: the alert, and paying is false again
PaymentEnds(c) ==
    /\ payTask' = [payTask EXCEPT ![c] = NoPayment]
    /\ paying' = [paying EXCEPT ![c] = FALSE]

\* a remote write of the run fails (the number of failures is bounded)
WriteFails(error) ==
    /\ error => writeErrors < MaxErrors
    /\ writeErrors' = IF error THEN writeErrors + 1 ELSE writeErrors

\* the insert into transactions has settled
PaymentInsertSettled(c) ==
    /\ payTask[c].stage = "insert"
    /\ \E error \in BOOLEAN :
        /\ WriteFails(error)
        /\ transactions' = IF error THEN transactions
                           ELSE Append(transactions, PaymentRow(payTask[c]))
        /\ IF error \/ NewBalance(payTask[c]) < 0
           THEN PaymentEnds(c)
           ELSE /\ payTask' = [payTask EXCEPT ![c].stage = "balance"]
                /\ UNCHANGED paying
    /\ UNCHANGED <<wallet_balance, invoices, orders, profile, invoice, payCount,
                   releases, chatVars, invoicingVars, entryVars>>

\* the update of profiles.wallet_balance has settled; the column's CHECK
\* rejects a negative balance
PaymentBalanceSettled(c) ==
    /\ payTask[c].stage = "balance"
    /\ \E error \in BOOLEAN :
        /\ WriteFails(error)
        /\ IF error \/ NewBalance(payTask[c]) < 0
           THEN /\ PaymentEnds(c)
                /\ UNCHANGED wallet_balance
           ELSE /\ wallet_balance' =
                      [wallet_balance EXCEPT ![payTask[c].profile.id] =
                          NewBalance(payTask[c])]
                /\ payTask' = [payTask EXCEPT ![c].stage = "invoice"]
                /\ UNCHANGED paying
    /\ UNCHANGED <<transactions, invoices, orders, profile, invoice, payCount,
                   releases, chatVars, invoicingVars, entryVars>>

\* the update of the invoice has settled. The customers' UPDATE policy lets it
\* reach the row only while its status is pending_payment; an update that
\* reaches no row is no error.
PaymentInvoiceSettled(c) ==
    /\ payTask[c].stage = "invoice"
    /\ \E error \in BOOLEAN :
        /\ WriteFails(error)
        /\ LET i == payTask[c].invoice.id
               payer == payTask[c].profile.id IN
           IF error \/ invoices[i].status # "pending_payment"
           THEN UNCHANGED <<invoices, orders, notifications>>
           ELSE ApplyUpdate(i, [invoices[i] EXCEPT !.status = "paid",
                                                   !.customer_id = payer])
        /\ PaymentEnds(c)
    /\ UNCHANGED <<wallet_balance, transactions, profile, invoice, payCount,
                   releases, chatVars, fundVars, numberVars, entryVars>>

(* --------------------------- escrow funding ----------------------------- *)
\* the row handed to supabase.from('escrow_transactions').insert; the column
\* status defaults to 'funded'
EscrowRow(inv) == [invoice_id |-> inv.id, amount |-> inv.total_amount, status |-> "funded"]

\* "Pay with Escrow" is rendered on the invoice screen of client c
CanPayWithEscrow(c) ==
    /\ CanPay(c)
    /\ ~paying[c]
    /\ invoice[c].escrow_status = "pending"

\* "Pay with Escrow" is pressed: the escrow screen is mounted and its
\* fetchInvoice has stored the row of the invoice
OpenEscrow(c) ==
    /\ CanPayWithEscrow(c)
    /\ fundInvoice[c].id = NULL
    /\ fundInvoice' = [fundInvoice EXCEPT ![c] = invoices[invoice[c].id]]
    /\ fundLoading' = [fundLoading EXCEPT ![c] = FALSE]
    /\ UNCHANGED <<escrow_transactions, fundTask, fundCount, ledgerVars,
                   invoiceVars, releases, writeErrors, chatVars, entryVars,
                   notifications, numberVars>>

\* "Fund Escrow" is pressed (the button is replaced by the spinner while
\* loading): the insert into escrow_transactions is sent
HandleFundEscrow(c) ==
    /\ fundInvoice[c].id # NULL
    /\ ~fundLoading[c]
    /\ fundCount < MaxFunds
    /\ fundCount' = fundCount + 1
    /\ fundLoading' = [fundLoading EXCEPT ![c] = TRUE]
    /\ fundTask' = [fundTask EXCEPT ![c] = "insert"]
    /\ UNCHANGED <<escrow_transactions, fundInvoice, ledgerVars, invoiceVars,
                   releases, writeErrors, chatVars, entryVars,
                   notifications, numberVars>>

\* the error branches of handleFundEscrow: the alert, and loading is false
FundEnds(c) ==
    /\ fundTask' = [fundTask EXCEPT ![c] = "idle"]
    /\ fundLoading' = [fundLoading EXCEPT ![c] = FALSE]

\* the insert into escrow_transactions has settled
FundInsertSettled(c) ==
    /\ fundTask[c] = "insert"
    /\ \E error \in BOOLEAN :
        /\ WriteFails(error)
        /\ IF error
           THEN /\ FundEnds(c)
                /\ UNCHANGED escrow_transactions
           ELSE /\ escrow_transactions' =
                      Append(escrow_transactions, EscrowRow(fundInvoice[c]))
                /\ fundTask' = [fundTask EXCEPT ![c] = "invoice"]
                /\ UNCHANGED fundLoading
    /\ UNCHANGED <<fundInvoice, fundCount, ledgerVars, invoiceVars, releases,
                   chatVars, entryVars, notifications, numberVars>>

\* the update of invoices.escrow_status has settled; on success the screen is
\* replaced by the invoice screen. The customers' UPDATE policy lets the
\* update reach the row only while its status is pending_payment.
FundInvoiceSettled(c) ==
    /\ fundTask[c] = "invoice"
    /\ \E error \in BOOLEAN :
        /\ WriteFails(error)
        /\ LET i == fundInvoice[c].id IN
           invoices' = IF error \/ invoices[i].status # "pending_payment"
                       THEN invoices
                       ELSE [invoices EXCEPT ![i].escrow_status = "funded"]
        /\ IF error
           THEN /\ FundEnds(c)
                /\ UNCHANGED fundInvoice
           ELSE /\ fundTask' = [fundTask EXCEPT ![c] = "idle"]
                /\ fundInvoice' = [fundInvoice EXCEPT ![c] = NoInvoice]
                /\ UNCHANGED fundLoading
    /\ UNCHANGED <<escrow_transactions, fundCount, wallet_balance, transactions,
                   orders, invoiceVars, releases, chatVars, entryVars,
                   notifications, numberVars>>

(* ------------------------ updates of an invoice ------------------------- *)
\* the values of invoice_status an update may ask for
Statuses == {"draft", "pending_payment", "paid", "cancelled"}
\* who updates invoices: the merchant and a customer
Updaters == {Merchant, "u1"}

\* user u updates row i of invoices to status st and customer_id cust. The
\* UPDATE policies let the merchant reach the own rows, and everybody the
\* rows that wait for their payment; the row written has to be the
\* merchant's own or have status paid or pending_payment, else the update is
\* an error. order_id is written by the trigger only.
UpdateInvoice(u, i, st, cust) ==
    LET old == invoices[i]
        new == [old EXCEPT !.status = st, !.customer_id = cust] IN
    /\ old.merchant_id = u \/ old.status = "pending_payment"
    /\ new.merchant_id = u \/ new.status \in {"paid", "pending_payment"}
    /\ ApplyUpdate(i, new)
    /\ UNCHANGED <<wallet_balance, transactions, invoiceVars, releases, writeErrors,
                   chatVars, fundVars, numberVars, entryVars>>

(* ------------------------- numbers of invoices -------------------------- *)
\* generate_invoice_number called in an insert of user u: one more than the
\* number of today's rows that the SELECT policies of invoices let u count
\* (the function runs with the rights of its caller). The number stands for
\* 'INV-' || date_part || '-' || LPAD(number, 5, '0').
generate_invoice_number(u) ==
    Cardinality({r \in dayInvoices : r.merchant_id = u}) + 1

\* the values of invoice_number held by rows of table invoices
HeldNumbers == {r.invoice_number : r \in dayInvoices}

\* createInvoice of client c sends its insert, without invoice_number:
\* trigger set_invoice_number has given the new row its number
CreateInvoice(c) ==
    /\ insertTask[c] = 0
    /\ invoiceSeq < MaxCreated
    /\ insertTask' = [insertTask EXCEPT ![c] = generate_invoice_number(UserOf(c))]
    /\ UNCHANGED <<dayInvoices, invoiceSeq, ledgerVars, invoiceVars, releases,
                   writeErrors, chatVars, fundVars, notifications, entryVars>>

\* the insert of client c has settled: the row is written unless its
\* invoice_number is held by a row (UNIQUE), which is an error
InsertSettled(c) ==
    /\ insertTask[c] # 0
    /\ insertTask' = [insertTask EXCEPT ![c] = 0]
    /\ IF insertTask[c] \in HeldNumbers
       THEN UNCHANGED <<dayInvoices, invoiceSeq>>
       ELSE /\ invoiceSeq' = invoiceSeq + 1
            /\ dayInvoices' = dayInvoices \cup
                    {[id |-> invoiceSeq + 1, merchant_id |-> UserOf(c),
                      invoice_number |-> insertTask[c]]}
    /\ UNCHANGED <<ledgerVars, invoiceVars, releases, writeErrors, chatVars,
                   fundVars, notifications, entryVars>>

\* the row r of today's invoices is deleted
DeleteInvoice(r) ==
    /\ r \in dayInvoices
    /\ dayInvoices' = dayInvoices \ {r}
    /\ UNCHANGED <<insertTask, invoiceSeq, ledgerVars, invoiceVars, releases,
                   writeErrors, chatVars, fundVars, notifications, entryVars>>

(* ---------------------------- release-escrow ---------------------------- *)
\* an order of sender u1, as it may stand when its release is requested: no
\* rider before it is accepted, rider u2 from then on
EscrowOrder(status, rider) ==
    [id |-> 1, sender_id |-> "u1", rider_id |-> rider, status |-> status,
     escrow_status |-> "funded", delivery_fee |-> 2]
EscrowOrders ==
    {EscrowOrder("pending", NoOne), EscrowOrder("cancelled", NoOne)}
    \cup {EscrowOrder(s, "u2") :
            s \in {"accepted", "picked_up", "in_transit", "delivered", "cancelled"}}

\* the orderId of a request body: none, the order of the run, an unknown id
OrderRefs == {NULL, 1, 2}

\* the response of request k is returned
Respond(k, code) ==
    releases' = [releases EXCEPT ![k].stage = "done", ![k].status = code]

\* a request arrives with the session of `caller` (NoOne: no session); the
\* handler reads the body and asks auth for the user
ReleaseRequest(caller, orderId) ==
    /\ Len(releases) < MaxReleases
    /\ LET r == [caller |-> caller, orderId |-> orderId, stage |-> "fetch",
                 status |-> 0, rider_id |-> NoOne, riderWalletBalance |-> 0,
                 delivery_fee |-> 0] IN
       releases' = Append(releases,
                          IF orderId = NULL
                          THEN [r EXCEPT !.stage = "done", !.status = 400]
                          ELSE IF caller = NoOne
                          THEN [r EXCEPT !.stage = "done", !.status = 401]
                          ELSE r)
    /\ UNCHANGED <<ledgerVars, invoiceVars, writeErrors, chatVars, invoicingVars, entryVars>>

\* Refused without the sender check
RefusedOnlyCompleted(order, caller) == order.status = "completed"

\* a request is served only for the sender and while the order is not completed
Refused(order, caller) ==
    order.sender_id # caller \/ order.status = "completed"

\* step 1: the order and its rider's wallet_balance are read and checked
ReleaseFetch(k) ==
    /\ k \in 1..Len(releases)
    /\ releases[k].stage = "fetch"
    /\ LET r == releases[k] IN
       IF r.orderId \notin 1..Len(orders) THEN Respond(k, 400)
       ELSE LET order == orders[r.orderId] IN
            IF Refused(order, r.caller)
            THEN Respond(k, 400)
            ELSE releases' =
                   [releases EXCEPT ![k] =
                      [r EXCEPT !.stage = "credit",
                                !.rider_id = order.rider_id,
                                !.riderWalletBalance =
                                    IF order.rider_id = NoOne THEN 0
                                    ELSE wallet_balance[order.rider_id],
                                !.delivery_fee = order.delivery_fee]]
    /\ UNCHANGED <<ledgerVars, invoiceVars, writeErrors, chatVars, invoicingVars, entryVars>>

\* step 2: the update of the rider's wallet_balance has settled; with no rider
\* the filter compares the uuid column with null, which the database rejects
ReleaseCredit(k) ==
    /\ k \in 1..Len(releases)
    /\ releases[k].stage = "credit"
    /\ LET r == releases[k] IN
       \E error \in BOOLEAN :
        /\ WriteFails(error)
        /\ IF error \/ r.rider_id = NoOne
           THEN /\ Respond(k, 400)
                /\ UNCHANGED wallet_balance
           ELSE /\ wallet_balance' =
                      [wallet_balance EXCEPT ![r.rider_id] =
                          r.riderWalletBalance + r.delivery_fee]
                /\ releases' = [releases EXCEPT ![k].stage = "status"]
    /\ UNCHANGED <<transactions, invoices, orders, invoiceVars, chatVars, invoicingVars,
                   entryVars>>

\* step 3: the update of the order to completed / released has settled
ReleaseStatus(k) ==
    /\ k \in 1..Len(releases)
    /\ releases[k].stage = "status"
    /\ \E error \in BOOLEAN :
        /\ WriteFails(error)
        /\ IF error
           THEN /\ Respond(k, 400)
                /\ UNCHANGED orders
           ELSE /\ orders' = [orders EXCEPT ![releases[k].orderId] =
                                [@ EXCEPT !.status = "completed",
                                          !.escrow_status = "released"]]
                /\ releases' = [releases EXCEPT ![k].stage = "log"]
    /\ UNCHANGED <<wallet_balance, transactions, invoices, invoiceVars, chatVars, invoicingVars,
                   entryVars>>

\* the row handed to the insert of step 4
PayoutRow(r) ==
    [user_id |-> r.rider_id, type |-> "payout", amount |-> r.delivery_fee,
     invoice_id |-> NULL, order_id |-> r.orderId]

\* step 4: the insert of the payout transaction has settled; its failure is
\* only logged
ReleaseLog(k) ==
    /\ k \in 1..Len(releases)
    /\ releases[k].stage = "log"
    /\ \E error \in BOOLEAN :
        /\ WriteFails(error)
        /\ transactions' = IF error THEN transactions
                           ELSE Append(transactions, PayoutRow(releases[k]))
    /\ Respond(k, 200)
    /\ UNCHANGED <<wallet_balance, invoices, orders, invoiceVars, chatVars, invoicingVars,
                   entryVars>>

(* --------------------- entry point and onboarding ----------------------- *)
\* profile.role: the values of the user_role enum and the 'customer' of Index
Roles == {"customer", "sender", "rider", "merchant", "admin"}
\* no profile
NoRole == "none"
\* the two Index components of app/index.tsx
Variants == {"roles", "tabs"}

\* the route Index redirects to when it no longer shows the splash screen
RoleRoute(r) ==
    CASE r = "customer" -> "/(customer)"
      [] r = "sender" -> "/(sender)"
      [] r = "rider" -> "/(rider)"
      [] r = "merchant" -> "/(merchant)"
      [] OTHER -> "/(auth)/login"
MainApp == {"/(tabs)", "/(customer)", "/(sender)", "/(rider)", "/(merchant)"}

\* Index returns <SplashScreen />
SplashShown ==
    \/ showSplash
    \/ authLoading
    \/ onboardingLoading
    \/ (variant = "roles" /\ session /\ profileLoading)

\* the href of the <Redirect /> Index returns otherwise
RedirectTarget ==
    IF variant = "tabs" /\ session THEN "/(tabs)"
    ELSE IF variant = "roles" /\ session /\ role # NoRole THEN RoleRoute(role)
    ELSE IF hasSeenOnboarding # "true" THEN "/(onboarding)"
    ELSE "/(auth)/login"

\* value === 'true'
SeenValueNever(value) == "false"
SeenValue(value) == IF value = "true" THEN "true" ELSE "false"

\* an AsyncStorage call of the run throws (the number of failures is bounded)
StorageFails(error) ==
    /\ error => storageErrors < MaxErrors
    /\ storageErrors' = IF error THEN storageErrors + 1 ELSE storageErrors

\* the app is started: Index mounts, its timer and the two hooks start
Launch ==
    /\ launches < MaxLaunches
    /\ launches' = launches + 1
    /\ route' = "/"
    /\ showSplash' = TRUE
    /\ authLoading' = TRUE
    /\ profileLoading' = FALSE
    /\ session' = FALSE
    /\ role' = NoRole
    /\ hasSeenOnboarding' = "null"
    /\ onboardingLoading' = TRUE
    /\ UNCHANGED <<variant, storedSession, storedRole, asyncStorage, seen,
                   storageErrors, chatVars, invoicingVars, ledgerVars, invoiceVars, releases,
                   writeErrors>>

\* setTimeout(() => setShowSplash(false), 2500) fires
SplashTimerFires ==
    /\ route = "/"
    /\ showSplash
    /\ showSplash' = FALSE
    /\ UNCHANGED <<variant, storedSession, storedRole, asyncStorage, seen,
                   storageErrors, launches, route, authLoading, profileLoading,
                   session, role, hasSeenOnboarding, onboardingLoading, chatVars, invoicingVars,
                   ledgerVars, invoiceVars, releases, writeErrors>>

\* the auth context has restored the session, if one is stored
AuthSettles ==
    /\ route = "/"
    /\ authLoading
    /\ authLoading' = FALSE
    /\ session' = storedSession
    /\ profileLoading' = storedSession
    /\ UNCHANGED <<variant, storedSession, storedRole, asyncStorage, seen,
                   storageErrors, launches, route, showSplash, role,
                   hasSeenOnboarding, onboardingLoading, chatVars, invoicingVars, ledgerVars,
                   invoiceVars, releases, writeErrors>>

\* the auth context has tried to load the profile of the session's user
ProfileSettles(loaded) ==
    /\ route = "/"
    /\ profileLoading
    /\ profileLoading' = FALSE
    /\ role' = IF loaded THEN storedRole ELSE NoRole
    /\ UNCHANGED <<variant, storedSession, storedRole, asyncStorage, seen,
                   storageErrors, launches, route, showSplash, authLoading,
                   session, hasSeenOnboarding, onboardingLoading, chatVars, invoicingVars,
                   ledgerVars, invoiceVars, releases, writeErrors>>

\* checkOnboardingStatus of useOnboarding has settled
CheckOnboardingStatus ==
    /\ route = "/"
    /\ onboardingLoading
    /\ \E error \in BOOLEAN :
        /\ StorageFails(error)
        /\ hasSeenOnboarding' = IF error THEN "false" ELSE SeenValue(asyncStorage)
    /\ onboardingLoading' = FALSE
    /\ UNCHANGED <<variant, storedSession, storedRole, asyncStorage, seen,
                   launches, route, showSplash, authLoading, profileLoading,
                   session, role, chatVars, invoicingVars, ledgerVars, invoiceVars, releases,
                   writeErrors>>

\* Index renders a <Redirect />
Redirect ==
    /\ route = "/"
    /\ ~SplashShown
    /\ route' = RedirectTarget
    /\ UNCHANGED <<variant, storedSession, storedRole, asyncStorage, seen,
                   storageErrors, launches, showSplash, authLoading,
                   profileLoading, session, role, hasSeenOnboarding,
                   onboardingLoading, chatVars, invoicingVars, ledgerVars, invoiceVars,
                   releases, writeErrors>>

\* handleComplete of the onboarding screen (the last Next, or Skip): the key is
\* stored and login replaces the screen, also when storing has failed
HandleComplete ==
    /\ route = "/(onboarding)"
    /\ \E error \in BOOLEAN :
        /\ StorageFails(error)
        /\ asyncStorage' = IF error THEN asyncStorage ELSE "true"
    /\ route' = "/(auth)/login"
    /\ seen' = TRUE
    /\ UNCHANGED <<variant, storedSession, storedRole, launches, showSplash,
                   authLoading, profileLoading, session, role, hasSeenOnboarding,
                   onboardingLoading, chatVars, invoicingVars, ledgerVars, invoiceVars, releases,
                   writeErrors>>

\* resetOnboarding of useOnboarding, called from a screen behind Index
ResetOnboarding ==
    /\ route # "/"
    /\ asyncStorage # NoValue
    /\ \E error \in BOOLEAN :
        /\ StorageFails(error)
        /\ asyncStorage' = IF error THEN asyncStorage ELSE NoValue
        /\ seen' = IF error THEN seen ELSE FALSE
    /\ UNCHANGED <<variant, storedSession, storedRole, launches, route,
                   showSplash, authLoading, profileLoading, session, role,
                   hasSeenOnboarding, onboardingLoading, chatVars, invoicingVars, ledgerVars,
                   invoiceVars, releases, writeErrors>>

(* --------------------------- specifications ----------------------------- *)
\* rows sent before the run: a text of each user and an image of u1
SeedRows ==
    <<NewRow(1, [conversation_id |-> Conversation, sender_id |-> "u2",
                 content |-> <<"a">>]),
      NewRow(2, [conversation_id |-> Conversation, sender_id |-> "u1",
                 content |-> <<"a">>]),
      NewRow(3, [conversation_id |-> Conversation, sender_id |-> "u1",
                 image_url |-> Path(9)])>>

\* the clients in `mounted` have mounted the Chat of the conversation: their
\* first fetchMessages is on its way and their channel is being subscribed
ChatMounted(mounted, seed) ==
    /\ rows = seed
    /\ reactions = {}
    /\ chat_images = {rows[i].image_url.file :
                        i \in {j \in 1..Len(rows) : rows[j].image_url.kind = "path"}}
    /\ chat_audio = {}
    /\ fileSeq = 0
    /\ opCount = 0
    /\ channelState = [c \in Users |-> IF c \in mounted THEN "joining" ELSE "closed"]
    /\ inbox = [c \in Users |-> <<>>]
    /\ messages = [c \in Users |-> <<>>]
    /\ loading = [c \in Users |-> TRUE]
    /\ fetches = [c \in Users |-> IF c \in mounted THEN <<FetchTask>> ELSE <<>>]
    /\ conversationId = [c \in Users |-> Conversation]
    /\ channels = [c \in Users |-> IF c \in mounted
                                    THEN {[id |-> 1, topic |-> Conversation]} ELSE {}]
    /\ channelRef = [c \in Users |-> IF c \in mounted THEN 1 ELSE NULL]
    /\ newMessage = [c \in Users |-> <<>>]
    /\ replyingTo = [c \in Users |-> NoMessage]
    /\ editingMessage = [c \in Users |-> NoMessage]
    /\ reactingTo = [c \in Users |-> NoMessage]
    /\ isUploading = [c \in Users |-> FALSE]
    /\ sheet = [c \in Users |-> NoSheet]
    /\ deleteAlert = [c \in Users |-> NULL]
    /\ sendTasks = [c \in Users |-> <<>>]
    /\ imageTasks = [c \in Users |-> <<>>]
    /\ reactTasks = [c \in Users |-> <<>>]
    /\ recording = [c \in Users |-> NULL]
    /\ recordingStatus = [c \in Users |-> "idle"]
    /\ recordingDuration = [c \in Users |-> 0]
    /\ durationInterval = [c \in Users |-> NULL]
    /\ intervals = [c \in Users |-> {}]
    /\ liveRecordings = [c \in Users |-> {}]
    /\ startTasks = [c \in Users |-> 0]
    /\ stopTasks = [c \in Users |-> <<>>]
    /\ lastStop = [c \in Users |-> "none"]
    /\ typingTimeoutRef = [c \in Users |-> NULL]
    /\ typingTimers = [c \in Users |-> {}]
    /\ otherUserIsTyping = [c \in Users |-> FALSE]
    /\ sinceKey = [c \in Users |-> -1]
    /\ stopCount = [c \in Users |-> 0]
    /\ burst = [c \in Users |-> 0]
    /\ payloads = <<>>

\* a run that follows one handleSendMessage call and one handleStartRecording
\* call of a client at a time
ChatInit(mounted, seed) ==
    /\ ChatMounted(mounted, seed)
    /\ budget = [sends |-> MaxSends, inserts |-> MaxInserts, starts |-> MaxStarts]

\* the tables of the payment flows before the run, with the orders `os`
LedgerInit(os) ==
    /\ wallet_balance = [u \in Users |-> InitialBalance]
    /\ transactions = <<>>
    /\ invoices = [i \in InvoiceIds |-> NewInvoice(i)]
    /\ orders = os

\* no invoice screen has loaded anything; every profile is up to date
ScreenInit ==
    /\ profile = [c \in Sessions |-> Profile(UserOf(c), InitialBalance)]
    /\ invoice = [c \in Sessions |-> NoInvoice]
    /\ paying = [c \in Sessions |-> FALSE]
    /\ payTask = [c \in Sessions |-> NoPayment]
    /\ payCount = 0

\* a device on which the app is started for the first time (no key stored),
\* with or without a stored session
EntryInit ==
    /\ variant \in Variants
    /\ storedSession \in BOOLEAN
    /\ storedRole \in (IF storedSession THEN Roles ELSE {NoRole})
    /\ asyncStorage = NoValue
    /\ route = "/"
    /\ showSplash = TRUE
    /\ authLoading = TRUE
    /\ profileLoading = FALSE
    /\ session = FALSE
    /\ role = NoRole
    /\ hasSeenOnboarding = "null"
    /\ onboardingLoading = TRUE
    /\ launches = 1
    /\ storageErrors = 0
    /\ seen = FALSE

\* the app is not followed: one Index, no session, Index still on its splash
EntryIdle ==
    /\ EntryInit
    /\ variant = "tabs"
    /\ ~storedSession

\* no escrow screen is open and no escrow has been funded
FundInit ==
    /\ escrow_transactions = <<>>
    /\ fundInvoice = [c \in Sessions |-> NoInvoice]
    /\ fundLoading = [c \in Sessions |-> FALSE]
    /\ fundTask = [c \in Sessions |-> "idle"]
    /\ fundCount = 0

\* no notification has been written and no invoice created today
TriggerInit ==
    /\ notifications = <<>>
    /\ dayInvoices = {}
    /\ insertTask = [c \in Sessions |-> 0]
    /\ invoiceSeq = 0

AppInit(os) ==
    /\ LedgerInit(os)
    /\ ScreenInit
    /\ FundInit
    /\ TriggerInit
    /\ releases = <<>>
    /\ writeErrors = 0
    /\ EntryIdle

InitWith(mounted, seed) == ChatInit(mounted, seed) /\ AppInit(<<>>)

StoreNext ==
    \E c \in Users :
        \/ ServerSelect(c)
        \/ FetchResolve(c)
        \/ ChannelJoined(c)
        \/ Deliver(c)

LoadNext == \E c \in Users : ServerSelect(c) \/ FetchResolve(c)

SheetNext ==
    \E c \in Users :
        \/ HandleShowActions(c)
        \/ SelectOption(c)
        \/ AnswerDeleteAlert(c)
        \/ CloseReactionPicker(c)
        \/ DismissReply(c)
        \/ DismissEdit(c)

ReactionNext == \E c \in Users : HandleSelectReaction(c) \/ ReactionSettled(c)

ReplyNext ==
    \E c \in Users :
        \/ HandleShowActions(c)
        \/ SelectOption(c)
        \/ CloseReactionPicker(c)
        \/ DismissReply(c)

SendNext ==
    \E c \in Users :
        \/ HandleTyping(c)
        \/ HandleSendMessage(c)
        \/ SendSettled(c)

ImageNext ==
    \E c \in Users :
        \/ HandlePickImage(c)
        \/ ImageUploadSettled(c)
        \/ ImageInsertSettled(c)

RecorderNext ==
    \E c \in Users :
        \/ MicPressIn(c)
        \/ StartSettled(c)
        \/ DurationTick(c)
        \/ HandleStopRecording(c)
        \/ StopUnloaded(c)
        \/ VoiceUploadSettled(c)
        \/ VoiceInsertSettled(c)

TypingNext ==
    \/ \E c \in Users : HandleTyping(c) \/ TypingTimerFires(c)
    \/ Tick

PeerNext ==
    \E u \in Users :
        \/ PeerSendsText(u)
        \/ PeerSendsImage(u)
        \/ PeerSendsVoice(u)
        \/ PeerDeletes(u)
        \/ PeerEdits(u)
        \/ PeerReacts(u)

\* the store of one client while the participants of the conversation write
Init == InitWith({"u1"}, <<>>)
Next == StoreNext \/ PeerNext
Spec == Init /\ [][Next]_vars

\* two clients in a conversation that holds one message: one of them types and
\* sends while the participants react to the message
SendInit == InitWith(Users, SubSeq(SeedRows, 1, 1))
SendStep == StoreNext \/ SendNext \/ \E u \in Users : PeerReacts(u)
SendSpec == SendInit /\ [][SendStep]_vars

\* one client and the long-press menu of its messages, in a conversation that
\* already holds messages; its channel has not joined yet
SheetInit == InitWith({"u1"}, SeedRows)
SheetStep == LoadNext \/ SheetNext \/ ReactionNext
SheetSpec == SheetInit /\ [][SheetStep]_vars

\* one subscribed client reacting to the message of the other user
ReactionInit == InitWith({"u1"}, SubSeq(SeedRows, 1, 1))
ReactionStep == StoreNext \/ ReplyNext \/ ReactionNext
ReactionSpec == ReactionInit /\ [][ReactionStep]_vars

\* one client editing, deleting and answering a message of its own, with its
\* send button and its attach button
EditInit == InitWith({"u1"}, SubSeq(SeedRows, 2, 2))
EditStep == LoadNext \/ SheetNext \/ SendNext \/ ImageNext
EditSpec == EditInit /\ [][EditStep]_vars

\* one client sending texts, images and voice messages, plain or as replies
\* to the message of the other user
ComposerInit == InitWith({"u1"}, SubSeq(SeedRows, 1, 1))
ComposerStep == LoadNext \/ ReplyNext \/ SendNext \/ ImageNext \/ RecorderNext
ComposerSpec == ComposerInit /\ [][ComposerStep]_vars

\* one client, its attach button and its recorder
UploadInit == InitWith({"u1"}, <<>>)
UploadStep == LoadNext \/ ImageNext \/ RecorderNext
UploadSpec == UploadInit /\ [][UploadStep]_vars

\* two clients, one of them typing while the clock runs
TypingInit == InitWith(Users, <<>>)
TypingStep == StoreNext \/ TypingNext
TypingSpec == TypingInit /\ [][TypingStep]_vars

\* two customers and two invoices that wait for their payment
PaymentInit == InitWith({}, <<>>)
PaymentNext ==
    \E c \in Sessions :
        \/ \E i \in InvoiceIds : LoadInvoice(c, i)
        \/ RefreshProfile(c)
        \/ \E handler \in {"processPayment", "handlePayment"} : HandlePayment(c, handler)
        \/ PaymentInsertSettled(c)
        \/ PaymentBalanceSettled(c)
        \/ PaymentInvoiceSettled(c)
PaymentSpec == PaymentInit /\ [][PaymentNext]_vars

\* one client typing and pressing its send button, also while a send is on
\* its way
ResendInit ==
    /\ ChatMounted({"u1"}, <<>>)
    /\ budget = [sends |-> MaxResends, inserts |-> MaxResends, starts |-> MaxStarts]
    /\ AppInit(<<>>)
ResendStep == StoreNext \/ SendNext \/ \E u \in Users \ Actors : PeerSendsText(u)
ResendSpec == ResendInit /\ [][ResendStep]_vars

\* one client and its recorder, the mic button also pressed while a
\* recording is starting up
RestartInit ==
    /\ ChatMounted({"u1"}, <<>>)
    /\ budget = [sends |-> MaxSends, inserts |-> MaxInserts, starts |-> MaxRestarts]
    /\ AppInit(<<>>)
RestartStep == LoadNext \/ RecorderNext
RestartSpec == RestartInit /\ [][RestartStep]_vars

\* customers funding the escrow of invoices from their invoice screens
FundingInit == InitWith({}, <<>>)
FundingNext ==
    \E c \in Sessions :
        \/ \E i \in InvoiceIds : LoadInvoice(c, i)
        \/ OpenEscrow(c)
        \/ HandleFundEscrow(c)
        \/ FundInsertSettled(c)
        \/ FundInvoiceSettled(c)
FundingSpec == FundingInit /\ [][FundingNext]_vars

\* clients creating invoices on one day
NumberingInit == InitWith({}, <<>>)
NumberingNext ==
    \/ \E c \in Sessions : CreateInvoice(c) \/ InsertSettled(c)
    \/ \E id \in 1..MaxCreated, u \in Users, n \in 1..MaxCreated :
          DeleteInvoice([id |-> id, merchant_id |-> u, invoice_number |-> n])
NumberingSpec == NumberingInit /\ [][NumberingNext]_vars

\* updates of the invoices by the merchant and a customer
UpdatingInit == InitWith({}, <<>>)
UpdatingNext ==
    \E u \in Updaters, i \in InvoiceIds, st \in Statuses, cust \in {NoOne, "u1"} :
        UpdateInvoice(u, i, st, cust)
UpdatingSpec == UpdatingInit /\ [][UpdatingNext]_vars

\* the release-escrow function serving requests for one order
EscrowInit == ChatInit({}, <<>>) /\ \E o \in EscrowOrders : AppInit(<<o>>)
EscrowNext ==
    \/ \E caller \in Users \cup {NoOne}, orderId \in OrderRefs :
            ReleaseRequest(caller, orderId)
    \/ \E k \in 1..MaxReleases :
            \/ ReleaseFetch(k)
            \/ ReleaseCredit(k)
            \/ ReleaseStatus(k)
            \/ ReleaseLog(k)
EscrowSpec == EscrowInit /\ [][EscrowNext]_vars

\* launches of the app on one device
LaunchInit == ChatInit({}, <<>>) /\ LedgerInit(<<>>) /\ ScreenInit
              /\ FundInit /\ TriggerInit
              /\ releases = <<>> /\ writeErrors = 0 /\ EntryInit
LaunchNext ==
    \/ Launch
    \/ SplashTimerFires
    \/ AuthSettles
    \/ \E loaded \in BOOLEAN : ProfileSettles(loaded)
    \/ CheckOnboardingStatus
    \/ Redirect
    \/ HandleComplete
    \/ ResetOnboarding
LaunchSpec == LaunchInit /\ [][LaunchNext]_vars

\* one client whose Chat is moved between two conversations while messages
\* arrive in both
SwitchInit == InitWith({"u1"}, <<>>)
SwitchNext ==
    \/ StoreNext
    \/ \E u \in Users : PeerSendsText(u) \/ PeerSendsElsewhere(u)
    \/ \E c \in Users, conv \in {Conversation, OtherConversation} :
            SetConversation(c, conv)
    \/ \E c \in Users : Unmount(c)
SwitchSpec == SwitchInit /\ [][SwitchNext]_vars

(* ------------------------------ properties ------------------------------ *)
Ids(list) == [i \in 1..Len(list) |-> list[i].id]
Occurrences(list, id) == Cardinality({i \in 1..Len(list) : list[i].id = id})
\* the client is subscribed, no fetch of it is in flight and no event is queued
Settled(c) ==
    /\ channelState[c] = "joined"
    /\ ~loading[c]
    /\ fetches[c] = <<>>
    /\ inbox[c] = <<>>
\* the step hands the client the event at the head of its queue
Delivers(c) == inbox[c] # <<>> /\ inbox'[c] = Tail(inbox[c])
\* the step ends a fetchMessages call whose select succeeded
ResolvesFetch(c) ==
    \E i \in 1..Len(fetches[c]) :
        /\ fetches[c][i].stage = "selected"
        /\ fetches'[c] = RemoveAt(fetches[c], i)

\* C1: once every fetch has completed and every event has been delivered no
\* row of the conversation is in the list twice, and the result of a fetch
\* that replaces the list drops no message the list holds.
C1_EachRowOnce ==
    /\ [](\A c \in Users :
            Settled(c) => \A id \in RowIds : Occurrences(messages[c], id) <= 1)
    /\ [][\A c \in Users :
            ResolvesFetch(c) =>
                Range(Ids(messages[c])) \subseteq Range(Ids(messages'[c]))]_vars

\* C2: handleSendMessage adds nothing to the list of its client, the INSERT
\* event of the row is what every subscribed client appends, and the store of
\* the sender never holds more than the one entry of that event for a row it
\* sent.
C2_EchoAddsTheOnlyEntry ==
    /\ [][\A c \in Users :
            sendTasks'[c] # sendTasks[c] => messages'[c] = messages[c]]_vars
    /\ [][\A c \in Users :
            (/\ Delivers(c)
             /\ Head(inbox[c]).table = "messages"
             /\ Head(inbox[c]).eventType = "INSERT")
            => /\ Len(messages'[c]) = Len(messages[c]) + 1
               /\ messages'[c][Len(messages'[c])].id = Head(inbox[c]).new.id]_vars
    /\ [](\A c \in Users : \A i \in 1..Len(rows) :
            rows[i].sender_id = c => Occurrences(messages[c], rows[i].id) <= 1)

\* C3: every message of a store carries a signed URL or null in image_url and
\* in audio_url, never the raw storage path, whichever way it came into the
\* store or was changed there.
C3_StoreHoldsSignedUrls ==
    \A c \in Users : \A i \in 1..Len(messages[c]) :
        /\ messages[c][i].image_url.kind \in {"signed", "null"}
        /\ messages[c][i].audio_url.kind \in {"signed", "null"}

\* the step ends a send that was started with a reply target: the insert of
\* handleSendMessage, of handlePickImage or of handleStopRecording settles
CompletesReplySend(c) ==
    \/ /\ sendTasks[c] # <<>>
       /\ sendTasks'[c] = Tail(sendTasks[c])
       /\ Head(sendTasks[c]).kind = "insert"
       /\ Head(sendTasks[c]).payload.reply_to_message_id # NULL
    \/ \E i \in 1..Len(imageTasks[c]) :
        /\ imageTasks[c][i].stage = "inserting"
        /\ imageTasks'[c] = RemoveAt(imageTasks[c], i)
        /\ imageTasks[c][i].replying.id # NULL
    \/ \E i \in 1..Len(stopTasks[c]) :
        /\ stopTasks[c][i].stage = "inserting"
        /\ stopTasks'[c] = RemoveAt(stopTasks[c], i)
        /\ stopTasks[c][i].replying.id # NULL

\* C4: every insert of a send that was started while the composer was replying
\* to a target carries the target's id in reply_to_message_id, and when such a
\* send (text, image or voice) completes replyingTo is null.
C4_ReplySendClearsTarget ==
    /\ [](\A k \in 1..Len(payloads) :
            payloads[k].replying # NULL
            => payloads[k].payload.reply_to_message_id = payloads[k].replying)
    /\ [][\A c \in Users :
            CompletesReplySend(c) => replyingTo'[c] = NoMessage]_vars

OwnTextOnly(message, me) ==
    /\ message.sender_id = me
    /\ message.content # <<>>
    /\ message.image_url.kind = "null"
    /\ message.audio_url.kind = "null"

\* C5: an action sheet offers Edit only for a message of the current user with
\* content and without image and audio, and Delete only for a message of the
\* current user; so the message being edited is an own text-only message and
\* the message the delete alert asks about is an own message.
C5_EditAndDeleteOnlyOwn ==
    \A c \in Users :
        /\ sheet[c] # NoSheet
            => /\ "Edit" \in Range(sheet[c].options)
                    => OwnTextOnly(sheet[c].message, c)
               /\ "Delete" \in Range(sheet[c].options)
                    => sheet[c].message.sender_id = c
        /\ editingMessage[c].id # NULL => OwnTextOnly(editingMessage[c], c)
        /\ deleteAlert[c] # NULL
            => \E i \in 1..Len(rows) :
                rows[i].id = deleteAlert[c] /\ rows[i].sender_id = c
\* the user is editing a text of its own and has opened the sheet of an image
\* of its own, which offers Delete and no Edit
C5_Witness ==
    \E c \in Users :
        /\ editingMessage[c].id # NULL
        /\ sheet[c] # NoSheet
        /\ sheet[c].message.sender_id = c
        /\ sheet[c].message.image_url.kind # "null"
        /\ "Delete" \in Range(sheet[c].options)
        /\ "Edit" \notin Range(sheet[c].options)

\* C6: the delivery of an UPDATE event that carries deleted_at leaves the
\* identifiers of the list as they were, in number and in order, and the
\* message it names is rendered from then on as the placeholder
\* "This message was deleted" and nothing else.
C6_SoftDeleteKeepsList ==
    [][\A c \in Users :
        (/\ Delivers(c)
         /\ Head(inbox[c]).table = "messages"
         /\ Head(inbox[c]).eventType = "UPDATE"
         /\ Head(inbox[c]).new.deleted_at # NULL)
        => /\ Ids(messages'[c]) = Ids(messages[c])
           /\ \A i \in 1..Len(messages[c]) :
                messages[c][i].id = Head(inbox[c]).new.id
                => ChatMessage(messages'[c][i]) = [text |-> "This message was deleted"]]_vars
\* a list of two messages or more holds a deleted message that an UPDATE event
\* was merged into: it still has the raw path the event carried, which a fetch
\* would have signed, while an INSERT event carries no deleted_at
C6_Witness ==
    \E c \in Users : \E i \in 1..Len(messages[c]) :
        /\ Len(messages[c]) >= 2
        /\ messages[c][i].deleted_at # NULL
        /\ messages[c][i].image_url.kind = "path"
        /\ ChatMessage(messages[c][i]) = [text |-> "This message was deleted"]

\* C7: a {isTyping: false} broadcast is published only when TypingTimeout
\* seconds have passed since the last keystroke; once they have passed and the
\* expired timer has run, exactly one has been published since that keystroke
\* and no timer is pending, however many keystrokes the burst had.
C7_OneStopBroadcast ==
    /\ [](\A c \in Users : stopCount[c] <= 1)
    /\ [](\A c \in Users :
            (sinceKey[c] >= TypingTimeout /\ \A t \in typingTimers[c] : t.left > 0)
            => stopCount[c] = 1 /\ typingTimers[c] = {})
    /\ [][\A c \in Users :
            stopCount'[c] = stopCount[c] + 1 => sinceKey[c] = TypingTimeout]_vars
\* a burst of two keystrokes or more, then the pause, then the one broadcast,
\* which the other client has received
C7_Witness ==
    \E c \in Users :
        /\ burst[c] >= 2
        /\ sinceKey[c] >= TypingTimeout
        /\ stopCount[c] = 1
        /\ typingTimers[c] = {}
        /\ \E d \in Users \ {c} : inbox[d] = <<>> /\ ~otherUserIsTyping[d]

\* C8: a discarded recording never reaches the upload, and the step that ends
\* its handleStopRecording stores no file in chat_audio, inserts no row and
\* leaves the recorder idle with no recording.
C8_DiscardSendsNothing ==
    /\ [](\A c \in Users : \A i \in 1..Len(stopTasks[c]) :
            ~stopTasks[c][i].send => stopTasks[c][i].stage = "stopping")
    /\ [][\A c \in Users : \A i \in 1..Len(stopTasks[c]) :
            (~stopTasks[c][i].send /\ stopTasks'[c] = RemoveAt(stopTasks[c], i))
            => /\ chat_audio' = chat_audio
               /\ rows' = rows
               /\ payloads' = payloads
               /\ recordingStatus'[c] = "idle"
               /\ recording'[c] = NULL]_vars
\* a recording was discarded: nothing is in the bucket or in the table and the
\* recorder is idle
C8_Witness ==
    \E c \in Users :
        /\ lastStop[c] = "discarded"
        /\ recordingStatus[c] = "idle"
        /\ recording[c] = NULL
        /\ stopTasks[c] = <<>>
        /\ chat_audio = {}
        /\ rows = <<>>

\* the step settles the upload of an image (voice) task of the client, and the
\* file has not been stored
ImageUploadFails(c) ==
    \E i \in 1..Len(imageTasks[c]) :
        /\ imageTasks[c][i].stage = "uploading"
        /\ imageTasks[c][i].filePath.file \notin chat_images'
        /\ \/ imageTasks'[c] = RemoveAt(imageTasks[c], i)
           \/ /\ Len(imageTasks'[c]) = Len(imageTasks[c])
              /\ imageTasks'[c][i].stage # "uploading"
VoiceUploadFails(c) ==
    \E i \in 1..Len(stopTasks[c]) :
        /\ stopTasks[c][i].stage = "uploading"
        /\ stopTasks[c][i].filePath.file \notin chat_audio'
        /\ \/ stopTasks'[c] = RemoveAt(stopTasks[c], i)
           \/ /\ Len(stopTasks'[c]) = Len(stopTasks[c])
              /\ stopTasks'[c][i].stage # "uploading"

\* C9: the file of every attachment that a row or an insert payload names is
\* in its bucket, and the step in which an upload fails ends the handler: no
\* row is inserted, no insert is sent and isUploading is false.
C9_FailedUploadAbortsSend ==
    /\ [](\A i \in 1..Len(rows) :
            /\ rows[i].image_url.kind = "path" => rows[i].image_url.file \in chat_images
            /\ rows[i].audio_url.kind = "path" => rows[i].audio_url.file \in chat_audio)
    /\ [](\A k \in 1..Len(payloads) :
            /\ "image_url" \in DOMAIN payloads[k].payload
                => payloads[k].payload.image_url.file \in chat_images
            /\ "audio_url" \in DOMAIN payloads[k].payload
                => payloads[k].payload.audio_url.file \in chat_audio)
    /\ [][\A c \in Users :
            (ImageUploadFails(c) \/ VoiceUploadFails(c))
            => /\ rows' = rows
               /\ payloads' = payloads
               /\ ~isUploading'[c]
               /\ Len(imageTasks'[c]) + Len(stopTasks'[c])
                    = Len(imageTasks[c]) + Len(stopTasks[c]) - 1]_vars
\* an upload was started and failed: the handler is over, nothing is stored,
\* nothing is inserted and isUploading is false again
C9_Witness ==
    \E c \in Users :
        /\ fileSeq >= 1
        /\ chat_images = {} /\ chat_audio = {}
        /\ imageTasks[c] = <<>> /\ stopTasks[c] = <<>>
        /\ ~isUploading[c]
        /\ rows = <<>> /\ payloads = <<>>

\* an upload of the client to chat_images or chat_audio has not settled yet
UploadInProgress(c) ==
    \/ \E i \in 1..Len(imageTasks[c]) : imageTasks[c][i].stage = "uploading"
    \/ \E i \in 1..Len(stopTasks[c]) : stopTasks[c][i].stage = "uploading"

\* C10: handleSendMessage sends an update or an insert only when the trimmed
\* text is not empty and no upload is in progress; when the composer is plain
\* (no message being edited, no reply target) what it sends is an insert whose
\* payload has the fields conversation_id, sender_id, content (the trimmed
\* text) and reply_to_message_id (null) and no other.
C10_PlainTextPayload ==
    [][\A c \in Users :
        Len(sendTasks'[c]) = Len(sendTasks[c]) + 1
        => LET t == sendTasks'[c][Len(sendTasks'[c])] IN
           /\ Trim(newMessage[c]) # <<>>
           /\ ~UploadInProgress(c)
           /\ (editingMessage[c].id = NULL /\ replyingTo[c].id = NULL)
                => /\ t.kind = "insert"
                   /\ DOMAIN t.payload = {"conversation_id", "sender_id", "content",
                                          "reply_to_message_id"}
                   /\ t.payload.reply_to_message_id = NULL
                   /\ t.payload.content = Trim(newMessage[c])]_vars

\* the reactions the backend holds for a message
ReactionsOf(id) ==
    {[emoji |-> x.emoji, user_id |-> x.user_id] :
        x \in {y \in reactions : y.message_id = id}}

\* C11: two toggle_reaction calls of a user with the same message and emoji
\* leave the user's reaction absent on the backend, and once the re-fetches
\* they caused have completed the store shows no reaction of that user on that
\* message.
C11_DoubleToggleShowsNothing ==
    /\ [][\A c \in Users : \A id \in RowIds : \A e \in Emojis :
            LET x == [message_id |-> id, user_id |-> c, emoji |-> e] IN
            (reactTasks[c] # <<>> /\ reactTasks'[c] = Tail(reactTasks[c])
                /\ reactions' # reactions)
            => (x \in reactions' <=> x \notin reactions)]_vars
    /\ [](\A c \in Users :
            (Settled(c) /\ reactTasks[c] = <<>> /\ opCount = MaxToggles
                /\ reactions = {})
            => \A i \in 1..Len(messages[c]) :
                 \A x \in messages[c][i].message_reactions : x.user_id # c)

(* --------------------------- wallet payments ---------------------------- *)
\* payment rows of user c for invoice i
PaymentsOf(c, i) ==
    {k \in 1..Len(transactions) :
        /\ transactions[k].type = "payment"
        /\ transactions[k].user_id = c
        /\ transactions[k].invoice_id = i}
\* invoice i is marked paid by c
PaidBy(c, i) == invoices[i].status = "paid" /\ invoices[i].customer_id = c
\* sum of total_amount over the invoices in S
RECURSIVE TotalOf(_)
TotalOf(S) ==
    IF S = {} THEN 0
    ELSE LET i == CHOOSE j \in S : TRUE IN
         invoices[i].total_amount + TotalOf(S \ {i})
\* no payment is in flight
NoPaymentRunning == \A c \in Sessions : payTask[c].stage = "idle"

\* C12: whenever no payment of a user is in flight, the user has a payment row
\* for an invoice exactly if the invoice is marked paid by the user, and the
\* user's wallet_balance is the initial one less the total_amount of the
\* invoices the user has payment rows for.
C12_PaymentAllOrNothing ==
    \A c \in Users :
        (\A s \in Sessions : UserOf(s) = c => payTask[s].stage = "idle") =>
            /\ \A i \in InvoiceIds : PaymentsOf(c, i) # {} <=> PaidBy(c, i)
            /\ wallet_balance[c] = InitialBalance
                    - TotalOf({i \in InvoiceIds : PaymentsOf(c, i) # {}})


(* ---------------------------- escrow release ---------------------------- *)
\* payout rows written for order o
PayoutsOf(o) ==
    {k \in 1..Len(transactions) :
        transactions[k].type = "payout" /\ transactions[k].order_id = o}
\* request r names an order whose sender is another user than its caller
NotSender(r) ==
    /\ r.caller # NoOne
    /\ r.orderId \in 1..Len(orders)
    /\ orders[r.orderId].sender_id # r.caller
\* request k arrives or advances in this step
Serves(k) == k > Len(releases) \/ releases'[k] # releases[k]

\* C13: a step of the release-escrow function changes a wallet_balance or the
\* order only when the order is delivered and has a rider.
C13_ReleaseOnlyAfterDelivery ==
    [][(wallet_balance' # wallet_balance \/ orders' # orders)
        => (orders[1].status = "delivered" /\ orders[1].rider_id # NoOne)]_vars

\* C14 as stated: every answered request without a session has status 401,
\* every answered request of a user who is not the order's sender has status
\* 400, and no step of such a request changes a wallet_balance, an order or
\* the transactions.
C14_EveryAnonymousRequest401 ==
    /\ [](\A k \in 1..Len(releases) :
            LET r == releases[k] IN
            r.stage = "done" =>
                /\ r.caller = NoOne => r.status = 401
                /\ NotSender(r) => r.status = 400)
    /\ [][\A k \in 1..Len(releases') :
            LET r == releases'[k] IN
            ((r.caller = NoOne \/ NotSender(r)) /\ Serves(k))
                => UNCHANGED ledgerVars]_vars

\* C14 amended: every answered request without a session that names an order
\* has status 401 (one that names none has 400), every answered request of a
\* user who is not the order's sender has status 400, and no step of such a
\* request changes a wallet_balance, an order or the transactions.
C14_OnlySenderReleases ==
    /\ [](\A k \in 1..Len(releases) :
            LET r == releases[k] IN
            r.stage = "done" =>
                /\ r.caller = NoOne =>
                      r.status = IF r.orderId = NULL THEN 400 ELSE 401
                /\ NotSender(r) => r.status = 400)
    /\ [][\A k \in 1..Len(releases') :
            LET r == releases'[k] IN
            ((r.caller = NoOne \/ NotSender(r)) /\ Serves(k))
                => UNCHANGED ledgerVars]_vars
\* a request without a session was answered 401 and one of the rider, who is
\* not the sender, was answered 400
C14_Witness ==
    \E j, k \in 1..Len(releases) :
        /\ releases[j].caller = NoOne /\ releases[j].status = 401
        /\ releases[k].caller = "u2" /\ NotSender(releases[k])
        /\ releases[k].stage = "done" /\ releases[k].status = 400

\* C18: for a delivered order, the rider's wallet_balance never exceeds the
\* initial one by more than the order's delivery_fee, and at most one payout
\* row is written for the order.
C18_ReleasedAtMostOnce ==
    orders[1].status \in {"delivered", "completed"} =>
        /\ \A u \in Users :
              wallet_balance[u] <= InitialBalance + orders[1].delivery_fee
        /\ Cardinality(PayoutsOf(1)) <= 1


(* ------------------------ payments of one invoice ----------------------- *)
\* payment rows recorded for invoice i
PaymentRowsFor(i) ==
    {k \in 1..Len(transactions) :
        transactions[k].type = "payment" /\ transactions[k].invoice_id = i}

\* C19: while no write has failed at most one payment row is recorded for an
\* invoice, and a wallet is debited by a payment only while the invoice it pays
\* is still waiting for its payment.
C19_InvoicePaidOnce ==
    /\ [](writeErrors = 0
            => \A i \in InvoiceIds : Cardinality(PaymentRowsFor(i)) <= 1)
    /\ [][\A s \in Sessions :
            (/\ payTask[s].stage = "balance"
             /\ wallet_balance'[UserOf(s)] < wallet_balance[UserOf(s)])
                => invoices[payTask[s].invoice.id].status = "pending_payment"]_vars

\* C20: when no write has failed, no payment is in flight and only user c has
\* paid, the wallet_balance of c is the initial one less the total_amount of
\* the invoices c has paid, and it is not negative.
C20_BalanceIsInitialLessPaid ==
    \A c \in Users :
        (/\ writeErrors = 0
         /\ NoPaymentRunning
         /\ \A k \in 1..Len(transactions) : transactions[k].user_id = c)
        => /\ wallet_balance[c] = InitialBalance
                   - TotalOf({i \in InvoiceIds : PaidBy(c, i)})
           /\ wallet_balance[c] >= 0


(* ---------------------- entry point and onboarding ---------------------- *)
\* Index leaves the splash screen in this step
Redirects == route = "/" /\ route' # "/"

\* C15: Index redirects only when the splash timer has fired and neither auth
\* nor onboarding is loading, and then to the main app with a session, to
\* onboarding with no session and hasSeenOnboarding false, to login with no
\* session and hasSeenOnboarding true.
C15_RoutesBySessionAndOnboarding ==
    [][Redirects =>
        /\ ~showSplash /\ ~authLoading /\ ~onboardingLoading
        /\ session => route' \in MainApp
        /\ (~session /\ hasSeenOnboarding = "false") => route' = "/(onboarding)"
        /\ (~session /\ hasSeenOnboarding = "true") => route' = "/(auth)/login"]_vars

C17_StoreHoldsOneConversation ==
    \A c \in Users :
        \A i \in 1..Len(messages[c]) :
            messages[c][i].conversation_id = conversationId[c]


(* ---------------------------- escrow funding ---------------------------- *)
EscrowRowsOf(i) == SelectSeq(escrow_transactions, LAMBDA r : r.invoice_id = i)
NoFundRunning == \A c \in Sessions : fundTask[c] = "idle"

\* C21: whenever no handleFundEscrow call is in flight, an invoice has at
\* most one escrow_transactions row, the row's amount is the invoice's
\* total_amount, and escrow_status is 'funded' exactly when the row exists.
C21_EscrowFundedOnce ==
    NoFundRunning =>
        \A i \in InvoiceIds :
            /\ Len(EscrowRowsOf(i)) <= 1
            /\ \A k \in 1..Len(EscrowRowsOf(i)) :
                    EscrowRowsOf(i)[k].amount = invoices[i].total_amount
            /\ invoices[i].escrow_status = "funded" <=> Len(EscrowRowsOf(i)) > 0


(* --------------------------- composer modes ----------------------------- *)
\* C22: the composer of a client is Plain, Replying or Editing: replyingTo
\* and editingMessage are never both set.
C22_ReplyingOrEditing ==
    \A c \in Users : replyingTo[c] = NoMessage \/ editingMessage[c] = NoMessage


(* ----------------------- edits of deleted messages ---------------------- *)
RowOf(id) == rows[CHOOSE k \in 1..Len(rows) : rows[k].id = id]
\* handleSendMessage of client c has sent the update of an edit
IssuesEdit(c) ==
    /\ Len(sendTasks'[c]) = Len(sendTasks[c]) + 1
    /\ sendTasks'[c][Len(sendTasks'[c])].kind = "edit"

\* C23: handleSendMessage sends the update of content and updated_at only for
\* a message whose deleted_at is null at that moment.
C23_DeletedContentKept ==
    [][\A c \in Users :
          IssuesEdit(c) => RowOf(editingMessage[c].id).deleted_at = NULL]_vars

(* ---------------------------- repeated sends ---------------------------- *)
SentBy(c) == SelectSeq(rows, LAMBDA r : r.sender_id = c)

\* C24: a followed client that has typed once (one keystroke in the run) has
\* at most one row in the conversation, however often its send button was
\* pressed.
C24_TypedOnceInsertedOnce ==
    \A c \in Actors : burst[c] <= 1 => Len(SentBy(c)) <= 1

(* --------------------------- order of the store ------------------------- *)
\* message a is not after message b: created_at ascending, ties by id
NotAfter(a, b) ==
    \/ a.created_at < b.created_at
    \/ a.created_at = b.created_at /\ a.id <= b.id

\* C25: the list of every client is ordered by created_at ascending, ties by
\* identifier.
C25_StoreOrdered ==
    \A c \in Users :
        \A i, j \in 1..Len(messages[c]) :
            i < j => NotAfter(messages[c][i], messages[c][j])

(* ------------------------- recording sessions --------------------------- *)
\* C26: a Chat never has more than one Audio.Recording that was created and
\* not unloaded, and never more than one armed duration interval.
C26_OneRecordingSession ==
    \A c \in Users :
        /\ Cardinality(liveRecordings[c]) <= 1
        /\ Cardinality(intervals[c]) <= 1

(* ------------------------ the recording controller ---------------------- *)
\* a handleStopRecording call of client c has ended (through its finally)
StopEnds(c) == Len(stopTasks'[c]) < Len(stopTasks[c])
\* a handleStartRecording call of client c has ended without a recording
StartFails(c) ==
    /\ startTasks'[c] < startTasks[c]
    /\ liveRecordings'[c] = liveRecordings[c]

\* C27: while a handleStopRecording call is on its way the status is
\* 'stopping'; when the call ends the status is 'idle', recording is null,
\* recordingDuration is 0 and no duration interval is armed; a start that
\* creates no recording leaves the controller as it was.
C27_StopEndsIdle ==
    /\ [](\A c \in Users : stopTasks[c] # <<>> => recordingStatus[c] = "stopping")
    /\ [][\A c \in Users :
            /\ StopEnds(c) =>
                  /\ recordingStatus'[c] = "idle"
                  /\ recording'[c] = NULL
                  /\ recordingDuration'[c] = 0
                  /\ intervals'[c] = {}
            /\ StartFails(c) =>
                  /\ recordingStatus'[c] = recordingStatus[c]
                  /\ recording'[c] = recording[c]
                  /\ intervals'[c] = intervals[c]]_vars

(* --------------------------- realtime channels -------------------------- *)
\* C28: a Chat holds at most one channel it has not removed, the channel of
\* its current conversationId, and none once it is unmounted.
C28_OneChannelOfTheConversation ==
    \A c \in Users :
        /\ Cardinality(channels[c]) <= 1
        /\ \A ch \in channels[c] : ch.topic = conversationId[c]
        /\ channelState[c] = "closed" => channels[c] = {}

\* the Chat was moved to the other conversation and unmounted afterwards
C28_Witness ==
    \E c \in Users :
        /\ conversationId[c] = OtherConversation
        /\ channelRef[c] # NULL
        /\ channelState[c] = "closed"
        /\ channels[c] = {}

(* ------------------------- numbers and orders --------------------------- *)
\* C29: the invoice_number that set_invoice_number has given to a row being
\* inserted is held by no row of table invoices, so that the insert does not
\* fail on the UNIQUE constraint.
C29_NumberNotHeld ==
    \A c \in Sessions : insertTask[c] # 0 => insertTask[c] \notin HeldNumbers

\* the orders and the 'Payment Received' notifications written for invoice i
OrdersOf(i) == {k \in 1..Len(orders) : orders[k].package_description = i}
NotificationsOf(i) ==
    {k \in 1..Len(notifications) :
        notifications[k].title = "Payment Received" /\ notifications[k].body = i}

====
